---- MODULE Spec2Model ----
(***************************************************************************)
(* A state-machine model of one FDRS planning cycle of fsolen/vmware_cluster *)
(* (src/fdrs.py): the cluster snapshot (modules/cluster_state.py), the       *)
(* anti-affinity grouping (modules/constraint_manager.py), the load          *)
(* evaluation (modules/load_evaluator.py), the planner                       *)
(* (modules/migration_planner.py) and the executor (modules/scheduler.py).   *)
(*                                                                           *)
(* Objects are integers (object identity); a name is the sequence of its     *)
(* characters, so that name.rstrip('0123456789'), name[:-2] and the          *)
(* comparison of names are computed as Python computes them.                 *)
(*                                                                           *)
(* Percentages: every capacity of the model is 100 and every usage is a      *)
(* multiple of 5 for which usage / capacity * 100.0 is exact in binary       *)
(* floating point (115 is off by 1e-14, far from every comparison made with  *)
(* it); the model computes the percentages in integers.                      *)
(***************************************************************************)
EXTENDS Integers, Sequences, FiniteSets, TLC

VARIABLES
    hosts,                  \* cluster_state.hosts: list of host objects
    vms,                    \* cluster_state.vms: list of VM objects
    vm_name,                \* vm.name of every VM object
    vm_host,                \* vm.runtime.host of every VM object (None if unset)
    vm_quickstats,          \* vm.summary.quickStats of every VM object
    host_overallMemoryUsage,\* host.summary.quickStats.overallMemoryUsage
    cs_real,                \* TRUE: cluster_state is a modules.cluster_state.ClusterState
    vm_metrics,             \* cluster_state.vm_metrics
    host_metrics,           \* cluster_state.host_metrics
    vm_distribution,        \* constraint_manager.vm_distribution
    violations,             \* constraint_manager.violations
    aggressiveness,         \* MigrationManager.aggressiveness
    max_total_migrations,   \* MigrationManager.max_total_migrations
    ignore_anti_affinity,   \* MigrationManager.ignore_anti_affinity
    migrations,             \* plan_migrations: the local list migrations
    vms_in_migration_plan,  \* plan_migrations: the local set of planned VMs
    load_map,               \* plan_migrations: current_host_resource_percentages_map
    overrides,              \* plan_migrations: the sim_*_override lists
    final_limited_migrations, \* plan_migrations: the list the plan is read from
    result,                 \* what plan_migrations returned to main
    executed,               \* the intents Scheduler.execute_migrations attempted
    dry_run,                \* Scheduler.dry_run
    relocate_calls,         \* the intents vm.ref.Relocate was called for
    failed,                 \* the intents logged as "Failed to migrate"
    first_plan,             \* the plan of an earlier cycle on this snapshot
    pc                      \* position of the cycle

vars == <<hosts, vms, vm_name, vm_host, vm_quickstats, host_overallMemoryUsage,
          cs_real, vm_metrics, host_metrics, vm_distribution, violations,
          aggressiveness, max_total_migrations, ignore_anti_affinity,
          migrations, vms_in_migration_plan, load_map, overrides,
          final_limited_migrations, result, executed, dry_run, relocate_calls,
          failed, first_plan, pc>>

snapshot_vars == <<hosts, vms, vm_name, vm_host, vm_quickstats,
                   host_overallMemoryUsage, cs_real>>

planner_config == <<aggressiveness, max_total_migrations, ignore_anti_affinity>>

metrics_vars == <<vm_metrics, host_metrics>>

planning_vars == <<migrations, vms_in_migration_plan, load_map, overrides,
                   final_limited_migrations>>

scheduler_vars == <<executed, dry_run, relocate_calls, failed>>

----------------------------------------------------------------------------
(* Bounds of the model *)

MaxHosts == 3

MaxVMs == 4

(* Python's None, where the other values are objects or numbers *)
None == -1

(* a variable that holds None or a list holds Unset or Some(list) *)
Unset == <<>>

Some(x) == <<x>>

----------------------------------------------------------------------------
(* Characters and names *)

Digits == <<"0", "1", "2", "3", "4", "5", "6", "7", "8", "9">>

(* the characters of the model in code-point order *)
Alphabet == Digits \o <<"a", "b", "c", "d", "e", "f", "g", "h", "p">>

Ord(c) == CHOOSE i \in 1..Len(Alphabet) : Alphabet[i] = c

IsDigit(c) == \E i \in 1..Len(Digits) : Digits[i] = c

(* a < b on Python strings *)
RECURSIVE StrLess(_, _)
StrLess(a, b) ==
    IF b = <<>> THEN FALSE
    ELSE IF a = <<>> THEN TRUE
    ELSE IF Head(a) = Head(b) THEN StrLess(Tail(a), Tail(b))
    ELSE Ord(Head(a)) < Ord(Head(b))

(* name.rstrip('0123456789') *)
RECURSIVE rstrip_digits(_)
rstrip_digits(s) ==
    IF s # <<>> /\ IsDigit(s[Len(s)])
    THEN rstrip_digits(SubSeq(s, 1, Len(s) - 1))
    ELSE s

(* name[:-2] *)
drop_last_two(s) == IF Len(s) <= 2 THEN <<>> ELSE SubSeq(s, 1, Len(s) - 2)

(* host.name of a host object: the inventory order of the hosts is not the
   order of their names (h2, h1, h4, h3, ...) *)
host_name(h) == <<"h", Digits[(IF h % 2 = 1 THEN h + 1 ELSE h - 1) + 1]>>

(* The VM names of a snapshot.  VMs 1 and 2 carry the prefix "ap", every
   other VM a prefix of its own.  Under "uniform" every name ends in two
   digits (ap01, ap02, dc03, dd04); under "mixed" the even VMs end in three
   (ap01, ap102, dc03, dd104). *)
NamingSchemes == {"uniform", "mixed"}

name_of_vm(v, scheme) ==
    (IF v <= 2 THEN <<"a", "p">> ELSE <<"d", Alphabet[10 + v]>>)
    \o (IF scheme = "uniform" \/ v % 2 = 1
        THEN <<"0", Digits[v + 1]>>
        ELSE <<"1", "0", Digits[v + 1]>>)

----------------------------------------------------------------------------
(* Generic helpers on Python lists and dicts *)

Range(s) == {s[i] : i \in 1..Len(s)}

(* d.get(k, default) *)
Get(d, k, default) == IF k \in DOMAIN d THEN d[k] ELSE default

RECURSIVE SumSeq(_)
SumSeq(s) == IF s = <<>> THEN 0 ELSE Head(s) + SumSeq(Tail(s))

SeqMax(s) == CHOOSE x \in Range(s) : \A y \in Range(s) : y <= x

SeqMin(s) == CHOOSE x \in Range(s) : \A y \in Range(s) : x <= y

(* every list that holds exactly the elements of S, once each *)
Orderings(S) ==
    {s \in [1..Cardinality(S) -> S] : \A i, j \in 1..Cardinality(S) : s[i] = s[j] => i = j}


----------------------------------------------------------------------------
(* modules/cluster_state.py *)

(* ClusterState.get_host_of_vm: the host OBJECT of the VM, or None *)
get_host_of_vm(vm) == vm_host[vm]

(* ClusterState.get_vms_on_host.  The ClusterState of src/ compares the host
   object returned by get_host_of_vm with host_object.name, a string: no VM
   passes.  A stand-in honouring the contract (tests/test_migration_planner.py
   setUp) lists the VMs placed on the host. *)
get_vms_on_host(host_object) ==
    IF cs_real
    THEN SelectSeq(vms, LAMBDA vm : FALSE)
    ELSE SelectSeq(vms, LAMBDA vm : get_host_of_vm(vm) = host_object)

(* ResourceMonitor.get_host_metrics as read by annotate_hosts_with_metrics *)
rm_host_metrics(host_obj) ==
    [cpu_capacity |-> 100, memory_capacity |-> 100,
     disk_io_capacity |-> 1000, network_capacity |-> 1250]

(* ClusterState.annotate_vms_with_metrics *)
annotate_vms_with_metrics ==
    [vm \in Range(vms) |->
        [cpu_usage_abs |-> vm_quickstats[vm].overallCpuUsage,
         memory_usage_abs |-> vm_quickstats[vm].guestMemoryUsage,
         disk_io_usage_abs |-> 0,
         network_io_usage_abs |-> 0]]

(* ClusterState.annotate_hosts_with_metrics, given the vm_metrics just built *)
annotate_hosts_with_metrics(vmm) ==
    [host_obj \in Range(hosts) |->
        [cpu_usage |->
            SumSeq(LET on == get_vms_on_host(host_obj)
                   IN  [i \in 1..Len(on) |-> LET vm == on[i] IN Get(Get(vmm, vm, <<>>), "cpu_usage_abs", 0)]),
         memory_usage |->
            SumSeq(LET on == get_vms_on_host(host_obj)
                   IN  [i \in 1..Len(on) |-> LET vm == on[i] IN Get(Get(vmm, vm, <<>>), "memory_usage_abs", 0)]),
         disk_io_usage |->
            SumSeq(LET on == get_vms_on_host(host_obj)
                   IN  [i \in 1..Len(on) |-> LET vm == on[i] IN Get(Get(vmm, vm, <<>>), "disk_io_usage_abs", 0)]),
         network_io_usage |->
            SumSeq(LET on == get_vms_on_host(host_obj)
                   IN  [i \in 1..Len(on) |-> LET vm == on[i] IN Get(Get(vmm, vm, <<>>), "network_io_usage_abs", 0)]),
         cpu_capacity |-> Get(rm_host_metrics(host_obj), "cpu_capacity", 0),
         memory_capacity |-> Get(rm_host_metrics(host_obj), "memory_capacity", 0),
         disk_io_capacity |-> Get(rm_host_metrics(host_obj), "disk_io_capacity", 1),
         network_capacity |-> Get(rm_host_metrics(host_obj), "network_capacity", 1)]]

(* The host_metrics a stand-in cluster_state is given by its test
   (tests/test_migration_planner.py setUp): cpu_usage is the sum of the
   host's VMs, memory_usage the host's own counter. *)
given_host_metrics ==
    [host_obj \in Range(hosts) |->
        [cpu_usage |->
            SumSeq(LET on == SelectSeq(vms, LAMBDA vm : vm_host[vm] = host_obj)
                   IN  [i \in 1..Len(on) |-> LET vm == on[i] IN vm_quickstats[vm].overallCpuUsage]),
         memory_usage |-> host_overallMemoryUsage[host_obj],
         disk_io_usage |-> 0,
         network_io_usage |-> 0,
         cpu_capacity |-> 100,
         memory_capacity |-> 100,
         disk_io_capacity |-> 1,
         network_capacity |-> 1]]

----------------------------------------------------------------------------
(* modules/constraint_manager.py *)

(* the grouping key of enforce_anti_affinity *)
short_name(name) ==
    IF rstrip_digits(name) # <<>> THEN rstrip_digits(name) ELSE name

(* ConstraintManager.enforce_anti_affinity: prefix -> list of VMs *)
enforce_anti_affinity ==
    LET named == SelectSeq(vms, LAMBDA vm : Len(vm_name[vm]) >= 3)
    IN  [prefix \in {short_name(vm_name[vm]) : vm \in Range(named)} |->
            SelectSeq(named, LAMBDA vm : short_name(vm_name[vm]) = prefix)]

(* the per-host count of a group's VMs on the active hosts *)
host_vm_counts(vms_in_group) ==
    [host \in Range(hosts) |->
        Len(SelectSeq(vms_in_group, LAMBDA vm : get_host_of_vm(vm) = host))]

CountSpread(counts) ==
    LET values == [i \in 1..Len(hosts) |-> counts[hosts[i]]]
    IN  SeqMax(values) - SeqMin(values)

(* a violation taken to be any host with more than one VM of a group,
   whatever the number of hosts *)
all_violations_per_host(dist) ==
    UNION {
        {vm \in Range(dist[prefix]) :
            /\ get_host_of_vm(vm) \in Range(hosts)
            /\ host_vm_counts(dist[prefix])[get_host_of_vm(vm)] > 1}
        : prefix \in DOMAIN dist}

(* every VM of a violated group reported, whatever its host *)
all_violations_whole_group(dist) ==
    IF Len(hosts) <= 1 THEN {}
    ELSE UNION {
        IF CountSpread(host_vm_counts(dist[prefix])) > 1
        THEN {vm \in Range(dist[prefix]) : get_host_of_vm(vm) \in Range(hosts)}
        ELSE {}
        : prefix \in DOMAIN dist}

(* ConstraintManager.calculate_anti_affinity_violations before
   list(set(...)): the set of VMs on the fullest hosts of every violated
   group *)
all_violations(dist) ==
    IF Len(hosts) <= 1 THEN {}
    ELSE UNION {
        LET counts == host_vm_counts(dist[prefix])
            values == [i \in 1..Len(hosts) |-> counts[hosts[i]]]
        IN  IF \A vm \in Range(dist[prefix]) : get_host_of_vm(vm) \notin Range(hosts)
            THEN {}
            ELSE IF SeqMax(values) - SeqMin(values) > 1
            THEN {vm \in Range(dist[prefix]) :
                    /\ get_host_of_vm(vm) \in Range(hosts)
                    /\ counts[get_host_of_vm(vm)] = SeqMax(values)}
            ELSE {}
        : prefix \in DOMAIN dist}

(* ConstraintManager.calculate_anti_affinity_violations: list(set(...))
   iterates in hash order, which the snapshot does not determine: every
   ordering of the set is a possible result *)
calculate_anti_affinity_violations(dist) == Orderings(all_violations(dist))

(* the selection loop shared by _find_perfect_balance_host and
   _find_better_than_source_host: the candidate with the fewest VMs of the
   group, the lexicographically smaller name winning a tie *)
RECURSIVE pick_lowest_count(_, _, _)
pick_lowest_count(candidates, counts, best) ==
    IF candidates = <<>> THEN best
    ELSE LET c == Head(candidates)
         IN  IF best = None \/ counts[c] < counts[best]
             THEN pick_lowest_count(Tail(candidates), counts, c)
             ELSE IF counts[c] = counts[best] /\ StrLess(host_name(c), host_name(best))
             THEN pick_lowest_count(Tail(candidates), counts, c)
             ELSE pick_lowest_count(Tail(candidates), counts, best)

(* the perfect balance pass giving a tie to the larger host name *)
find_perfect_balance_host_largest_name(vm_to_move, current_host_group_counts, source_host) ==
    LET simulated(target) ==
            [h \in Range(hosts) |->
                current_host_group_counts[h]
                - (IF h = source_host THEN 1 ELSE 0)
                + (IF h = target THEN 1 ELSE 0)]
        perfect_balance_candidates ==
            {target \in Range(hosts) :
                /\ target # source_host
                /\ CountSpread(simulated(target)) <= 1}
        lowest == {c \in perfect_balance_candidates :
                    \A d \in perfect_balance_candidates :
                        current_host_group_counts[c] <= current_host_group_counts[d]}
    IN  IF lowest = {} THEN None
        ELSE CHOOSE c \in lowest :
                \A d \in lowest \ {c} : StrLess(host_name(d), host_name(c))

(* ConstraintManager._find_perfect_balance_host *)
find_perfect_balance_host(vm_to_move, current_host_group_counts, source_host) ==
    LET simulated(target) ==
            [h \in Range(hosts) |->
                current_host_group_counts[h]
                - (IF h = source_host THEN 1 ELSE 0)
                + (IF h = target THEN 1 ELSE 0)]
        perfect_balance_candidates ==
            SelectSeq(hosts, LAMBDA target :
                        /\ target # source_host
                        /\ CountSpread(simulated(target)) <= 1)
    IN  pick_lowest_count(perfect_balance_candidates, current_host_group_counts, None)

(* the fallback pass accepting a host with as many VMs of the group as the
   source *)
find_better_than_source_host_or_equal(vm_to_move, current_host_group_counts, source_host, source_host_group_count) ==
    pick_lowest_count(
        SelectSeq(hosts, LAMBDA target :
                    /\ target # source_host
                    /\ current_host_group_counts[target] <= source_host_group_count),
        current_host_group_counts, None)

(* ConstraintManager._find_better_than_source_host *)
find_better_than_source_host(vm_to_move, current_host_group_counts, source_host, source_host_group_count) ==
    pick_lowest_count(
        SelectSeq(hosts, LAMBDA target :
                    /\ target # source_host
                    /\ current_host_group_counts[target] < source_host_group_count),
        current_host_group_counts, None)

(* ConstraintManager.get_preferred_host_for_vm.  The planner passes the
   intents planned so far as planned_migrations_this_cycle; the method of
   src/modules/constraint_manager.py has no use for them: it counts the
   group on the current placement only and keys the group by name[:-2]. *)
get_preferred_host_for_vm(vm_to_move, planned_migrations_this_cycle) ==
    LET dist == IF DOMAIN vm_distribution = {}
                THEN enforce_anti_affinity ELSE vm_distribution
        vm_prefix == drop_last_two(vm_name[vm_to_move])
        vms_in_group == Get(dist, vm_prefix, <<>>)
        source_host == get_host_of_vm(vm_to_move)
        counts == host_vm_counts(vms_in_group)
        perfect == find_perfect_balance_host(vm_to_move, counts, source_host)
    IN  IF Len(vm_name[vm_to_move]) < 3 THEN None
        ELSE IF vms_in_group = <<>> THEN None
        ELSE IF source_host = None THEN None
        ELSE IF Len(hosts) <= 1 THEN None
        ELSE IF perfect # None THEN perfect
        ELSE find_better_than_source_host(vm_to_move, counts, source_host,
                                          Get(counts, source_host, MaxVMs + 1))

----------------------------------------------------------------------------
(* modules/load_evaluator.py *)

Resources == <<"cpu", "memory", "disk", "network">>

(* usage / capacity * 100.0 if capacity > 0 else 0.0 *)
Percentage(usage, capacity) ==
    IF capacity > 0 THEN (usage * 100) \div capacity ELSE 0

(* LoadEvaluator.get_resource_percentage_lists over LoadEvaluator.hosts, the
   host dicts ClusterState.get_cluster_state builds from host_metrics, in
   the order of cluster_state.hosts *)
get_resource_percentage_lists ==
    LET hm(i) == Get(host_metrics, hosts[i], <<>>)
    IN  [cpu |-> [i \in 1..Len(hosts) |->
                    Percentage(Get(hm(i), "cpu_usage", 0), Get(hm(i), "cpu_capacity", 0))],
         memory |-> [i \in 1..Len(hosts) |->
                    Percentage(Get(hm(i), "memory_usage", 0), Get(hm(i), "memory_capacity", 0))],
         disk |-> [i \in 1..Len(hosts) |->
                    Percentage(Get(hm(i), "disk_io_usage", 0), Get(hm(i), "disk_io_capacity", 0))],
         network |-> [i \in 1..Len(hosts) |->
                    Percentage(Get(hm(i), "network_io_usage", 0), Get(hm(i), "network_capacity", 0))]]

(* thresholds that rise with the level *)
get_thresholds_rising(level) ==
    [r \in Range(Resources) |-> IF level \in 1..5 THEN 5 * level ELSE 15]

(* LoadEvaluator.get_thresholds: the same value for the four resources *)
get_thresholds(level) ==
    LET threshold_value ==
            CASE level = 5 -> 5
              [] level = 4 -> 10
              [] level = 3 -> 15
              [] level = 2 -> 20
              [] level = 1 -> 25
              [] OTHER -> 15
    IN  [r \in Range(Resources) |-> threshold_value]

(* the highest usage compared with the threshold, in place of the
   difference *)
resource_imbalance_of_highest_usage(percentages, resource_threshold) ==
    [is_imbalanced |-> SeqMax(percentages) > resource_threshold,
     current_diff |-> SeqMax(percentages) - SeqMin(percentages),
     threshold |-> resource_threshold,
     min_usage |-> SeqMin(percentages),
     max_usage |-> SeqMax(percentages)]

(* the comparison with the threshold made with >= *)
resource_imbalance_at_threshold(percentages, resource_threshold) ==
    [is_imbalanced |-> SeqMax(percentages) - SeqMin(percentages) >= resource_threshold,
     current_diff |-> SeqMax(percentages) - SeqMin(percentages),
     threshold |-> resource_threshold,
     min_usage |-> SeqMin(percentages),
     max_usage |-> SeqMax(percentages)]

(* the body of the loop of LoadEvaluator.evaluate_imbalance for one resource
   with at least two data points *)
resource_imbalance(percentages, resource_threshold) ==
    [is_imbalanced |-> SeqMax(percentages) - SeqMin(percentages) > resource_threshold,
     current_diff |-> SeqMax(percentages) - SeqMin(percentages),
     threshold |-> resource_threshold,
     min_usage |-> SeqMin(percentages),
     max_usage |-> SeqMax(percentages)]

(* LoadEvaluator.evaluate_imbalance as the planner calls it: the override
   lists replace the evaluator's own, and the result details every resource
   that has at least two data points.  src/modules/load_evaluator.py holds an
   earlier evaluate_imbalance (no overrides, a bool); this one follows
   spec.md and tests/test_load_evaluator.py. *)
evaluate_imbalance(level, override_lists) ==
    LET data == IF override_lists = Unset
                THEN get_resource_percentage_lists
                ELSE override_lists[1]
        checked == {r \in Range(Resources) : Len(data[r]) >= 2}
    IN  [r \in checked |-> resource_imbalance(data[r], get_thresholds(level)[r])]

(* LoadEvaluator.get_all_host_resource_percentages_map: absent from
   src/modules/load_evaluator.py; follows spec.md and
   tests/test_load_evaluator.py *)
get_all_host_resource_percentages_map ==
    LET lists == get_resource_percentage_lists
        index(h) == CHOOSE i \in 1..Len(hosts) : hosts[i] = h
    IN  [h \in Range(hosts) |->
            [r \in Range(Resources) |-> lists[r][index(h)]]]

(* ClusterState.get_host_by_name: absent from src/modules/cluster_state.py;
   follows tests/test_cluster_state.py: the active host of that name, or
   None *)
get_host_by_name(name) ==
    IF \E h \in Range(hosts) : host_name(h) = name
    THEN CHOOSE h \in Range(hosts) : host_name(h) = name
    ELSE None

----------------------------------------------------------------------------
(* modules/migration_planner.py *)

(* vm.config.template: ClusterState._get_all_vms keeps no template *)
is_template(vm) == FALSE

(* list.sort(key=..., reverse=True) on a list of [key, item] pairs: stable,
   equal keys keep their order *)
RECURSIVE sort_descending(_)
sort_descending(pairs) ==
    IF pairs = <<>> THEN <<>>
    ELSE LET top == SeqMax([i \in 1..Len(pairs) |-> pairs[i].key])
             first == CHOOSE i \in 1..Len(pairs) :
                        /\ pairs[i].key = top
                        /\ \A j \in 1..(i - 1) : pairs[j].key # top
         IN  <<pairs[first]>>
             \o sort_descending(SubSeq(pairs, 1, first - 1)
                                \o SubSeq(pairs, first + 1, Len(pairs)))

(* MigrationManager._is_anti_affinity_safe *)
is_anti_affinity_safe(vm_to_move, target_host_obj, planned_migrations_in_cycle) ==
    LET vm_prefix == drop_last_two(vm_name[vm_to_move])
        dist == IF DOMAIN vm_distribution = {}
                THEN enforce_anti_affinity ELSE vm_distribution
        vms_in_group == Get(dist, vm_prefix, <<>>)
        planned_of(vm) == {i \in 1..Len(planned_migrations_in_cycle) :
                                planned_migrations_in_cycle[i].vm = vm}
        planned_vm_location(vm) ==
            planned_migrations_in_cycle[
                CHOOSE i \in planned_of(vm) : \A j \in planned_of(vm) : j <= i].target_host
        final_host(vm) ==
            IF vm = vm_to_move THEN target_host_obj
            ELSE IF planned_of(vm) # {} THEN planned_vm_location(vm)
            ELSE get_host_of_vm(vm)
        simulated_host_vm_counts ==
            [h \in Range(hosts) |->
                Len(SelectSeq(vms_in_group, LAMBDA vm : final_host(vm) = h))]
        counted == SelectSeq(hosts, LAMBDA h : get_host_by_name(host_name(h)) # None)
        counts == [i \in 1..Len(counted) |-> simulated_host_vm_counts[counted[i]]]
    IN  IF vms_in_group = <<>> THEN TRUE
        ELSE IF Len(hosts) <= 1 THEN TRUE
        ELSE IF counts = <<>> THEN TRUE
        ELSE SeqMax(counts) - SeqMin(counts) <= 1

(* MigrationManager._would_fit_on_host *)
would_fit_on_host(vm, host_obj) ==
    LET vmm == Get(vm_metrics, vm, <<>>)
        host_current_metrics == Get(host_metrics, host_obj, <<>>)
        vm_cpu_req == Get(vmm, "cpu_usage_abs", Get(vmm, "cpu_allocation", 0))
        vm_mem_req == Get(vmm, "memory_usage_abs", Get(vmm, "memory_allocation_bytes", 0))
        host_cpu_cap == Get(host_current_metrics, "cpu_capacity", 1)
        host_mem_cap == Get(host_current_metrics, "memory_capacity", 1)
        host_cpu_curr == Get(host_current_metrics, "cpu_usage", 0)
        host_mem_curr == Get(host_current_metrics, "memory_usage_abs", 0)
        projected_cpu_pct ==
            IF host_cpu_cap > 0
            THEN ((host_cpu_curr + vm_cpu_req) * 100) \div host_cpu_cap ELSE 100
        projected_mem_pct ==
            IF host_mem_cap > 0
            THEN ((host_mem_curr + vm_mem_req) * 100) \div host_mem_cap ELSE 100
    IN  IF DOMAIN vmm = {} \/ DOMAIN host_current_metrics = {} THEN FALSE
        ELSE IF projected_cpu_pct > 90 THEN FALSE
        ELSE IF projected_mem_pct > 90 THEN FALSE
        ELSE TRUE

(* _select_vms_to_move without the test of vms_already_in_plan *)
select_vms_to_move_unfiltered(source_host_obj, imbalanced_resource, vms_already_in_plan) ==
    LET candidate_vms == SelectSeq(get_vms_on_host(source_host_obj), LAMBDA vm : ~is_template(vm))
        sorted == sort_descending(
                    [i \in 1..Len(candidate_vms) |->
                        [key |-> Get(Get(vm_metrics, candidate_vms[i], <<>>), "cpu_usage_abs", 0),
                         item |-> candidate_vms[i]]])
        num_to_select == IF aggressiveness < Len(sorted) THEN aggressiveness ELSE Len(sorted)
    IN  [i \in 1..num_to_select |-> sorted[i].item]

(* MigrationManager._select_vms_to_move *)
select_vms_to_move(source_host_obj, imbalanced_resource, vms_already_in_plan) ==
    LET candidate_vms ==
            SelectSeq(get_vms_on_host(source_host_obj), LAMBDA vm :
                        /\ vm \notin vms_already_in_plan
                        /\ ~is_template(vm))
        sort_key(vm) ==
            LET metrics == Get(vm_metrics, vm, <<>>)
            IN  IF DOMAIN metrics = {} THEN 0
                ELSE IF imbalanced_resource = "cpu"
                THEN Get(metrics, "cpu_usage_abs", 0)
                ELSE IF imbalanced_resource = "memory"
                THEN Get(metrics, "memory_usage_abs", 0)
                ELSE Get(metrics, "cpu_usage_abs", 0) + Get(metrics, "memory_usage_abs", 0)
        sorted == sort_descending(
                    [i \in 1..Len(candidate_vms) |->
                        [key |-> sort_key(candidate_vms[i]), item |-> candidate_vms[i]]])
        num_to_select == IF aggressiveness < Len(sorted) THEN aggressiveness ELSE Len(sorted)
    IN  [i \in 1..num_to_select |-> sorted[i].item]

(* the target search with the source host among the candidates *)
find_better_host_for_balancing_source_included(vm_to_move, source_host_obj, all_hosts, imbalanced_resources_details, host_resource_percentages_map, planned_migrations_in_cycle) ==
    LET target_metrics_pct(t) == Get(host_resource_percentages_map, t, <<>>)
        score(t) ==
            SumSeq(LET on == SelectSeq(Resources, LAMBDA r :
                                /\ r \in DOMAIN imbalanced_resources_details
                                /\ r \in DOMAIN target_metrics_pct(t))
                   IN  [i \in 1..Len(on) |-> LET r == on[i] IN 100 - target_metrics_pct(t)[r]])
        eligible ==
            SelectSeq(all_hosts, LAMBDA t :
                        /\ would_fit_on_host(vm_to_move, t)
                        /\ \/ ignore_anti_affinity
                           \/ is_anti_affinity_safe(vm_to_move, t, planned_migrations_in_cycle)
                        /\ DOMAIN target_metrics_pct(t) # {}
                        /\ score(t) > 0)
        potential_targets ==
            sort_descending([i \in 1..Len(eligible) |->
                                [key |-> score(eligible[i]), item |-> eligible[i]]])
    IN  IF potential_targets = <<>> THEN None ELSE potential_targets[1].item

(* MigrationManager._find_better_host_for_balancing *)
find_better_host_for_balancing(vm_to_move, source_host_obj, all_hosts, imbalanced_resources_details, host_resource_percentages_map, planned_migrations_in_cycle) ==
    LET target_metrics_pct(t) == Get(host_resource_percentages_map, t, <<>>)
        score(t) ==
            SumSeq(LET on == SelectSeq(Resources, LAMBDA r :
                                /\ r \in DOMAIN imbalanced_resources_details
                                /\ r \in DOMAIN target_metrics_pct(t))
                   IN  [i \in 1..Len(on) |-> LET r == on[i] IN 100 - target_metrics_pct(t)[r]])
        eligible ==
            SelectSeq(all_hosts, LAMBDA t :
                        /\ t # source_host_obj
                        /\ would_fit_on_host(vm_to_move, t)
                        /\ \/ ignore_anti_affinity
                           \/ is_anti_affinity_safe(vm_to_move, t, planned_migrations_in_cycle)
                        /\ DOMAIN target_metrics_pct(t) # {}
                        /\ score(t) > 0)
        potential_targets ==
            sort_descending([i \in 1..Len(eligible) |->
                                [key |-> score(eligible[i]), item |-> eligible[i]]])
    IN  IF potential_targets = <<>> THEN None ELSE potential_targets[1].item

(* the loop of MigrationManager._plan_anti_affinity_migrations over the
   violating VMs: the intents accepted and the planned VMs *)
RECURSIVE anti_affinity_loop(_, _, _)
anti_affinity_loop(remaining, aa_migrations_planned_this_step, in_plan) ==
    IF remaining = <<>>
    THEN [planned |-> aa_migrations_planned_this_step, in_plan |-> in_plan]
    ELSE LET vm_obj == Head(remaining)
             target_host_obj ==
                get_preferred_host_for_vm(vm_obj, aa_migrations_planned_this_step)
         IN  IF vm_obj \in in_plan \/ is_template(vm_obj)
             THEN anti_affinity_loop(Tail(remaining), aa_migrations_planned_this_step, in_plan)
             ELSE IF target_host_obj # None /\ would_fit_on_host(vm_obj, target_host_obj)
             THEN anti_affinity_loop(
                    Tail(remaining),
                    Append(aa_migrations_planned_this_step,
                           [vm |-> vm_obj, target_host |-> target_host_obj,
                            reason |-> "Anti-Affinity"]),
                    in_plan \cup {vm_obj})
             ELSE anti_affinity_loop(Tail(remaining), aa_migrations_planned_this_step, in_plan)

(* the anti-affinity pass left out when ignore_anti_affinity is set *)
plan_anti_affinity_migrations_unless_ignored(anti_affinity_vm_violations, in_plan) ==
    IF ignore_anti_affinity
    THEN [planned |-> <<>>, in_plan |-> in_plan]
    ELSE anti_affinity_loop(anti_affinity_vm_violations, <<>>, in_plan)

(* MigrationManager._plan_anti_affinity_migrations on the violations list *)
plan_anti_affinity_migrations(anti_affinity_vm_violations, in_plan) ==
    anti_affinity_loop(anti_affinity_vm_violations, <<>>, in_plan)

(* the simulation adding the arriving VMs without taking the leaving ones
   off their hosts *)
get_simulated_load_data_arrivals_only(migrations_to_simulate) ==
    LET moved(h, key) ==
            SumSeq(LET on == SelectSeq(migrations_to_simulate, LAMBDA m : m.target_host = h)
                   IN  [i \in 1..Len(on) |-> LET m == on[i] IN Get(Get(vm_metrics, m.vm, <<>>), key, 0)])
        loads(h) ==
            LET hm == Get(host_metrics, h, <<>>)
            IN  [cpu_usage_abs |-> Get(hm, "cpu_usage", 0) + moved(h, "cpu_usage_abs"),
                 mem_usage_abs |-> Get(hm, "memory_usage", 0) + moved(h, "memory_usage_abs"),
                 cpu_cap_abs |-> Get(hm, "cpu_capacity", 1),
                 mem_cap_abs |-> Get(hm, "memory_capacity", 1)]
        cpu_p(h) == Percentage(loads(h).cpu_usage_abs, loads(h).cpu_cap_abs)
        mem_p(h) == Percentage(loads(h).mem_usage_abs, loads(h).mem_cap_abs)
        orig == get_resource_percentage_lists
        index(h) == CHOOSE i \in 1..Len(hosts) : hosts[i] = h
    IN  [lists |-> [cpu |-> [i \in 1..Len(hosts) |-> cpu_p(hosts[i])],
                    memory |-> [i \in 1..Len(hosts) |-> mem_p(hosts[i])],
                    disk |-> orig.disk,
                    network |-> orig.network],
         map |-> [h \in Range(hosts) |->
                    [cpu |-> cpu_p(h), memory |-> mem_p(h),
                     disk |-> orig.disk[index(h)],
                     network |-> orig.network[index(h)]]]]

(* MigrationManager._get_simulated_load_data_after_migrations *)
get_simulated_load_data_after_migrations(migrations_to_simulate) ==
    LET moved(h, key) ==
            SumSeq(LET on == SelectSeq(migrations_to_simulate, LAMBDA m : m.target_host = h)
                   IN  [i \in 1..Len(on) |-> LET m == on[i] IN Get(Get(vm_metrics, m.vm, <<>>), key, 0)])
            - SumSeq(LET on == SelectSeq(migrations_to_simulate, LAMBDA m : get_host_of_vm(m.vm) = h)
                   IN  [i \in 1..Len(on) |-> LET m == on[i] IN Get(Get(vm_metrics, m.vm, <<>>), key, 0)])
        loads(h) ==
            LET hm == Get(host_metrics, h, <<>>)
            IN  [cpu_usage_abs |-> Get(hm, "cpu_usage", 0) + moved(h, "cpu_usage_abs"),
                 mem_usage_abs |-> Get(hm, "memory_usage", 0) + moved(h, "memory_usage_abs"),
                 cpu_cap_abs |-> Get(hm, "cpu_capacity", 1),
                 mem_cap_abs |-> Get(hm, "memory_capacity", 1)]
        cpu_p(h) == Percentage(loads(h).cpu_usage_abs, loads(h).cpu_cap_abs)
        mem_p(h) == Percentage(loads(h).mem_usage_abs, loads(h).mem_cap_abs)
        orig == get_resource_percentage_lists
        index(h) == CHOOSE i \in 1..Len(hosts) : hosts[i] = h
    IN  [lists |-> [cpu |-> [i \in 1..Len(hosts) |-> cpu_p(hosts[i])],
                    memory |-> [i \in 1..Len(hosts) |-> mem_p(hosts[i])],
                    disk |-> orig.disk,
                    network |-> orig.network],
         map |-> [h \in Range(hosts) |->
                    [cpu |-> cpu_p(h), memory |-> mem_p(h),
                     disk |-> orig.disk[index(h)],
                     network |-> orig.network[index(h)]]]]

(* the inner loop of MigrationManager._plan_balancing_migrations over the
   VMs selected on one source host; ctx holds the decision map, the details
   of the imbalanced resources and the intents planned before this pass *)
RECURSIVE balancing_vm_loop(_, _, _, _)
balancing_vm_loop(candidate_vms_to_move, source_host_obj, ctx, acc) ==
    IF candidate_vms_to_move = <<>> THEN acc
    ELSE LET vm_to_move == Head(candidate_vms_to_move)
             safety_check_migrations_list == ctx.planned \o acc.balancing
             target_host_obj ==
                find_better_host_for_balancing(vm_to_move, source_host_obj, hosts,
                                               ctx.details, ctx.map,
                                               safety_check_migrations_list)
         IN  IF target_host_obj # None
             THEN balancing_vm_loop(
                    Tail(candidate_vms_to_move), source_host_obj, ctx,
                    [balancing |-> Append(acc.balancing,
                                          [vm |-> vm_to_move,
                                           target_host |-> target_host_obj,
                                           reason |-> "Resource Balancing"]),
                     in_plan |-> acc.in_plan \cup {vm_to_move}])
             ELSE balancing_vm_loop(Tail(candidate_vms_to_move), source_host_obj, ctx, acc)

(* the outer loop taking every host that uses an imbalanced resource at all
   for a source *)
RECURSIVE balancing_host_loop_any_loaded_host(_, _, _, _)
balancing_host_loop_any_loaded_host(remaining_hosts, problematic_resources_names, ctx, acc) ==
    IF remaining_hosts = <<>> THEN acc
    ELSE LET source_host_obj == Head(remaining_hosts)
             source_host_metrics_pct == Get(ctx.map, source_host_obj, <<>>)
             max_usage_resources ==
                SelectSeq(problematic_resources_names, LAMBDA r :
                        Get(source_host_metrics_pct, r, 0) > 0)
         IN  IF max_usage_resources = <<>>
             THEN balancing_host_loop_any_loaded_host(Tail(remaining_hosts),
                                                     problematic_resources_names, ctx, acc)
             ELSE balancing_host_loop_any_loaded_host(
                    Tail(remaining_hosts), problematic_resources_names, ctx,
                    balancing_vm_loop(
                        select_vms_to_move(source_host_obj, max_usage_resources[1], acc.in_plan),
                        source_host_obj, ctx, acc))

(* the outer loop of MigrationManager._plan_balancing_migrations over the
   hosts: a host is a source when its usage of an imbalanced resource is
   that resource's maximum and positive *)
RECURSIVE balancing_host_loop(_, _, _, _)
balancing_host_loop(remaining_hosts, problematic_resources_names, ctx, acc) ==
    IF remaining_hosts = <<>> THEN acc
    ELSE LET source_host_obj == Head(remaining_hosts)
             source_host_metrics_pct == Get(ctx.map, source_host_obj, <<>>)
             max_usage_resources ==
                SelectSeq(problematic_resources_names, LAMBDA r :
                        /\ Get(source_host_metrics_pct, r, 0) = Get(ctx.all_details[r], "max_usage", -1)
                        /\ Get(source_host_metrics_pct, r, 0) > 0)
         IN  IF max_usage_resources = <<>>
             THEN balancing_host_loop(Tail(remaining_hosts), problematic_resources_names, ctx, acc)
             ELSE balancing_host_loop(
                    Tail(remaining_hosts), problematic_resources_names, ctx,
                    balancing_vm_loop(
                        select_vms_to_move(source_host_obj, max_usage_resources[1], acc.in_plan),
                        source_host_obj, ctx, acc))

(* MigrationManager._plan_balancing_migrations *)
plan_balancing_migrations(in_plan, host_resource_percentages_map_for_decision, current_planned_migrations_list, override_lists) ==
    LET imbalance_details == evaluate_imbalance(aggressiveness, override_lists)
        problematic_resources_names ==
            SelectSeq(Resources, LAMBDA r :
                        /\ r \in DOMAIN imbalance_details
                        /\ imbalance_details[r].is_imbalanced)
        ctx == [map |-> host_resource_percentages_map_for_decision,
                all_details |-> imbalance_details,
                details |-> [r \in Range(problematic_resources_names) |-> imbalance_details[r]],
                planned |-> current_planned_migrations_list]
    IN  IF DOMAIN imbalance_details = {} \/ problematic_resources_names = <<>>
        THEN [balancing |-> <<>>, in_plan |-> in_plan]
        ELSE balancing_host_loop(hosts, problematic_resources_names, ctx,
                                 [balancing |-> <<>>, in_plan |-> in_plan])

(* list.extend inserting in front *)
extend_in_front(list, more) == more \o list

(* list.extend: migrations.extend(balancing_migrations) *)
extend(list, more) == list \o more

(* the s[:n] of Python for n >= 0 *)
Take(s, n) == SubSeq(s, 1, IF n < Len(s) THEN n ELSE Len(s))

(* the limit not enforced *)
enforce_migration_limit_skipped(all_migrations, limit) == all_migrations

(* plan_migrations, "Enforce overall migration limit" *)
enforce_migration_limit(all_migrations, limit) ==
    LET aa_migs_from_plan == SelectSeq(all_migrations, LAMBDA m : m.reason = "Anti-Affinity")
        balance_migs_from_plan == SelectSeq(all_migrations, LAMBDA m : m.reason # "Anti-Affinity")
        remaining_slots == limit - Len(aa_migs_from_plan)
    IN  IF ~(Len(all_migrations) > limit) THEN all_migrations
        ELSE IF Len(aa_migs_from_plan) >= limit THEN Take(aa_migs_from_plan, limit)
        ELSE IF remaining_slots > 0 /\ balance_migs_from_plan # <<>>
        THEN aa_migs_from_plan \o Take(balance_migs_from_plan, remaining_slots)
        ELSE aa_migs_from_plan

(* plan_migrations, the returned list of (vm, target_host) tuples *)
final_migration_tuples(plan) == [i \in 1..Len(plan) |-> <<plan[i].vm, plan[i].target_host>>]

----------------------------------------------------------------------------
(* Inputs of the model *)

CpuProfiles == {"flat", "skew"}

MemProfiles == {"low", "first", "all"}

cpu_of_vm(v, profile) == IF profile = "flat" THEN 10 ELSE 10 * v

mem_of_host(h, placed, profile) ==
    10 * placed + (IF profile = "all" \/ (profile = "first" /\ h = 1) THEN 75 ELSE 0)

Init ==
    \E nh \in 0..MaxHosts, scheme \in NamingSchemes,
       cpuP \in CpuProfiles, memP \in MemProfiles, real \in BOOLEAN :
    \E place \in [1..MaxVMs -> IF nh = 0 THEN {None} ELSE 1..nh] :
        /\ nh > 0 => place[1] = 1
        /\ hosts = [i \in 1..nh |-> i]
        /\ vms = [i \in 1..MaxVMs |-> i]
        /\ vm_name = [v \in 1..MaxVMs |-> name_of_vm(v, scheme)]
        /\ vm_host = place
        /\ vm_quickstats = [v \in 1..MaxVMs |->
                [overallCpuUsage |-> cpu_of_vm(v, cpuP), guestMemoryUsage |-> 10]]
        /\ host_overallMemoryUsage = [h \in 1..nh |->
                mem_of_host(h, Cardinality({v \in 1..MaxVMs : place[v] = h}), memP)]
        /\ cs_real = real
        /\ vm_metrics = <<>>
        /\ host_metrics = <<>>
        /\ vm_distribution = <<>>
        /\ violations = <<>>
        /\ aggressiveness = None
        /\ max_total_migrations = None
        /\ ignore_anti_affinity = FALSE
        /\ migrations = <<>>
        /\ vms_in_migration_plan = {}
        /\ load_map = <<>>
        /\ overrides = Unset
        /\ final_limited_migrations = <<>>
        /\ result = Unset
        /\ executed = <<>>
        /\ dry_run = FALSE
        /\ relocate_calls = <<>>
        /\ failed = <<>>
        /\ first_plan = Unset
        /\ pc = "update"

(* ClusterState.update_metrics (fdrs.py main); a stand-in cluster_state is
   handed its metrics by its test instead *)
UpdateMetrics ==
    /\ pc = "update"
    /\ vm_metrics' = annotate_vms_with_metrics
    /\ host_metrics' = IF cs_real
                       THEN annotate_hosts_with_metrics(annotate_vms_with_metrics)
                       ELSE given_host_metrics
    /\ pc' = "apply"
    /\ UNCHANGED <<snapshot_vars, first_plan, vm_distribution, violations, planner_config,
                   planning_vars, result, scheduler_vars>>

(* ConstraintManager.apply *)
Apply ==
    /\ pc = "apply"
    /\ vm_distribution' = enforce_anti_affinity
    /\ violations' \in calculate_anti_affinity_violations(enforce_anti_affinity)
    /\ pc' = "construct"
    /\ UNCHANGED <<snapshot_vars, first_plan, metrics_vars, planner_config, planning_vars,
                   result, scheduler_vars>>

(* the values main and the tests construct the planner with *)
AggressivenessLevels == {2, 3}

MigrationLimits == {None, 1, MaxVMs - 1}

(* MigrationManager.__init__ *)
Construct ==
    /\ pc = "construct"
    /\ \E level \in AggressivenessLevels, limit \in MigrationLimits, ignore \in BOOLEAN :
        /\ aggressiveness' = level
        /\ max_total_migrations' = IF limit = None THEN 20 ELSE limit
        /\ ignore_anti_affinity' = ignore
    /\ pc' = "anti_affinity"
    /\ UNCHANGED <<snapshot_vars, first_plan, metrics_vars, vm_distribution, violations,
                   planning_vars, result, scheduler_vars>>

(* plan_migrations up to and including Step 1: the initial map is fetched,
   the violations are calculated if none are stored, the anti-affinity pass
   runs *)
PlanAntiAffinity ==
    /\ pc = "anti_affinity"
    /\ \E stored \in (IF violations = <<>>
                      THEN calculate_anti_affinity_violations(enforce_anti_affinity)
                      ELSE {violations}) :
        \E pass \in {plan_anti_affinity_migrations(stored, {})} :
            /\ violations' = stored
            /\ vm_distribution' = IF violations = <<>>
                                  THEN enforce_anti_affinity ELSE vm_distribution
            /\ migrations' = pass.planned
            /\ vms_in_migration_plan' = pass.in_plan
            /\ pc' = IF pass.planned # <<>> THEN "simulate" ELSE "balance"
    /\ load_map' = get_all_host_resource_percentages_map
    /\ UNCHANGED <<snapshot_vars, first_plan, metrics_vars, planner_config, overrides,
                   final_limited_migrations, result, scheduler_vars>>

(* the simulation writing the simulated usage into host_metrics *)
SimulateAntiAffinity_in_host_metrics ==
    /\ pc = "simulate"
    /\ LET sim == get_simulated_load_data_after_migrations(migrations)
       IN  /\ overrides' = Some(sim.lists)
           /\ load_map' = sim.map
           /\ host_metrics' = [h \in DOMAIN host_metrics |->
                [host_metrics[h] EXCEPT
                    !.cpu_usage = (sim.map[h].cpu * host_metrics[h].cpu_capacity) \div 100,
                    !.memory_usage = (sim.map[h].memory * host_metrics[h].memory_capacity) \div 100]]
    /\ pc' = "balance"
    /\ UNCHANGED <<snapshot_vars, first_plan, vm_metrics, vm_distribution, violations,
                   planner_config, migrations, vms_in_migration_plan,
                   final_limited_migrations, result, scheduler_vars>>

(* plan_migrations: the anti-affinity intents are simulated *)
SimulateAntiAffinity ==
    /\ pc = "simulate"
    /\ \E sim \in {get_simulated_load_data_after_migrations(migrations)} :
           /\ overrides' = Some(sim.lists)
           /\ load_map' = sim.map
    /\ pc' = "balance"
    /\ UNCHANGED <<snapshot_vars, first_plan, metrics_vars, vm_distribution, violations,
                   planner_config, migrations, vms_in_migration_plan,
                   final_limited_migrations, result, scheduler_vars>>

(* the balancing pass deciding from the snapshot's own percentages whatever
   the anti-affinity pass planned *)
PlanBalancing_from_snapshot ==
    /\ pc = "balance"
    /\ \E pass \in {plan_balancing_migrations(vms_in_migration_plan,
                                             get_all_host_resource_percentages_map,
                                             migrations, Unset)} :
           /\ migrations' = extend(migrations, pass.balancing)
           /\ vms_in_migration_plan' = pass.in_plan
    /\ pc' = "limit"
    /\ UNCHANGED <<snapshot_vars, first_plan, metrics_vars, vm_distribution, violations,
                   planner_config, load_map, overrides,
                   final_limited_migrations, result, scheduler_vars>>

(* plan_migrations Step 2: the balancing pass *)
PlanBalancing ==
    /\ pc = "balance"
    /\ \E pass \in {plan_balancing_migrations(vms_in_migration_plan, load_map,
                                             migrations, overrides)} :
           /\ migrations' = extend(migrations, pass.balancing)
           /\ vms_in_migration_plan' = pass.in_plan
    /\ pc' = "limit"
    /\ UNCHANGED <<snapshot_vars, first_plan, metrics_vars, vm_distribution, violations,
                   planner_config, load_map, overrides,
                   final_limited_migrations, result, scheduler_vars>>

(* plan_migrations: the limit is enforced and the tuples are returned.  The
   code rebinds migrations to the limited list; the model keeps the list as
   planned in migrations and the limited one in final_limited_migrations. *)
EnforceLimit ==
    /\ pc = "limit"
    /\ \E limited \in {enforce_migration_limit(migrations, max_total_migrations)} :
        /\ final_limited_migrations' = limited
        /\ result' = Some(final_migration_tuples(limited))
    /\ pc' = "planned"
    /\ UNCHANGED <<snapshot_vars, first_plan, metrics_vars, vm_distribution, violations,
                   planner_config, migrations, vms_in_migration_plan, load_map,
                   overrides, scheduler_vars>>

(* what _migrate_vm does for the intents of a plan: every migration
   completes, the task of the first one fails (_wait_for_task raises), or
   every call raises before vm.ref.Relocate is reached *)
MigrationOutcomes == {"completed", "first_task_fails", "no_relocate"}

(* Scheduler._migrate_vm for the i-th intent under an outcome *)
migrate_vm(i, outcome) ==
    [relocate_called |-> outcome # "no_relocate",
     raised |-> \/ outcome = "no_relocate"
                \/ (outcome = "first_task_fails" /\ i = 1)]

(* the loop ended by the first failure *)
execute_migrations_stopping_at_failure(plan, dry, outcome) ==
    LET attempted == IF dry \/ plan = <<>> \/ outcome = "completed" THEN 1..Len(plan) ELSE {1}
        in_order(S) == SelectSeq([i \in 1..Len(plan) |-> i], LAMBDA i : i \in S)
        intents(S) == [k \in 1..Len(in_order(S)) |-> plan[in_order(S)[k]]]
    IN  [executed |-> intents(attempted),
         relocate_calls |-> intents({i \in attempted :
                                ~dry /\ migrate_vm(i, outcome).relocate_called}),
         failed |-> intents({i \in attempted : ~dry /\ migrate_vm(i, outcome).raised})]

(* Scheduler.execute_migrations: the loop over the plan; an exception of
   _migrate_vm is caught and logged inside the loop *)
execute_migrations(plan, dry, outcome) ==
    LET in_order(S) == SelectSeq([i \in 1..Len(plan) |-> i], LAMBDA i : i \in S)
        intents(S) == [k \in 1..Len(in_order(S)) |-> plan[in_order(S)[k]]]
    IN  [executed |-> plan,
         relocate_calls |-> intents({i \in 1..Len(plan) :
                                ~dry /\ migrate_vm(i, outcome).relocate_called}),
         failed |-> intents({i \in 1..Len(plan) : ~dry /\ migrate_vm(i, outcome).raised})]

(* main: "if migrations:" constructs the Scheduler with args.dry_run and
   hands the plan to Scheduler.execute_migrations *)
Execute ==
    /\ pc = "planned"
    /\ result[1] # <<>>
    /\ \E dry \in BOOLEAN, outcome \in MigrationOutcomes :
        \E run \in {execute_migrations(result[1], dry, outcome)} :
            /\ dry => outcome = "completed"
            /\ dry_run' = dry
            /\ executed' = run.executed
            /\ relocate_calls' = run.relocate_calls
            /\ failed' = run.failed
    /\ pc' = "done"
    /\ UNCHANGED <<snapshot_vars, first_plan, metrics_vars, vm_distribution, violations,
                   planner_config, planning_vars, result>>

(* main: an empty plan is only logged *)
NoMigrations ==
    /\ pc = "planned"
    /\ result[1] = <<>>
    /\ pc' = "done"
    /\ UNCHANGED <<snapshot_vars, first_plan, metrics_vars, vm_distribution, violations,
                   planner_config, planning_vars, result, scheduler_vars>>

(* a failure that hands back what was planned so far *)
Fail_returning_partial_plan ==
    /\ pc \in {"anti_affinity", "simulate", "balance"}
    /\ result' = Some(final_migration_tuples(migrations))
    /\ pc' = "error"
    /\ UNCHANGED <<snapshot_vars, first_plan, metrics_vars, vm_distribution, violations,
                   planner_config, planning_vars, scheduler_vars>>

(* An exception raised inside plan_migrations (a collaborator call fails):
   nothing catches it before the handler around main, which logs it and
   exits; plan_migrations returns nothing and the Scheduler is not reached. *)
Fail ==
    /\ pc \in {"anti_affinity", "simulate", "balance"}
    /\ pc' = "error"
    /\ UNCHANGED <<snapshot_vars, first_plan, metrics_vars, vm_distribution, violations,
                   planner_config, planning_vars, result, scheduler_vars>>

Next ==
    \/ UpdateMetrics
    \/ Apply
    \/ Construct
    \/ PlanAntiAffinity
    \/ SimulateAntiAffinity
    \/ PlanBalancing
    \/ EnforceLimit
    \/ Execute
    \/ NoMigrations
    \/ Fail

Spec == Init /\ [][Next]_vars

(* A second planning cycle on the same snapshot, with the same planner
   configuration: ConstraintManager.apply and plan_migrations run again. *)
Rerun ==
    /\ pc = "planned"
    /\ first_plan = Unset
    /\ first_plan' = result
    /\ vm_distribution' = enforce_anti_affinity
    /\ violations' \in calculate_anti_affinity_violations(enforce_anti_affinity)
    /\ migrations' = <<>>
    /\ vms_in_migration_plan' = {}
    /\ load_map' = <<>>
    /\ overrides' = Unset
    /\ final_limited_migrations' = <<>>
    /\ result' = Unset
    /\ pc' = "anti_affinity"
    /\ UNCHANGED <<snapshot_vars, metrics_vars, planner_config, scheduler_vars>>

NextTwice == Next \/ Rerun

SpecTwice == Init /\ [][NextTwice]_vars

----------------------------------------------------------------------------
(* Snapshots of the two planning scenarios: one prefix group gathered on one
   host, and one host hot on CPU *)

(* the snapshot after construction, given its hosts, names, placement and
   the CPU of its VMs; every VM uses 10 of memory *)
snapshot(nh, names, place, cpu, mem, real) ==
    /\ hosts = [i \in 1..nh |-> i]
    /\ vms = [i \in 1..Len(names) |-> i]
    /\ vm_name = names
    /\ vm_host = place
    /\ vm_quickstats = [v \in 1..Len(names) |->
            [overallCpuUsage |-> cpu[v], guestMemoryUsage |-> 10]]
    /\ host_overallMemoryUsage = mem
    /\ cs_real = real
    /\ vm_metrics = <<>>
    /\ host_metrics = <<>>
    /\ vm_distribution = <<>>
    /\ violations = <<>>
    /\ aggressiveness = None
    /\ max_total_migrations = None
    /\ ignore_anti_affinity = FALSE
    /\ migrations = <<>>
    /\ vms_in_migration_plan = {}
    /\ load_map = <<>>
    /\ overrides = Unset
    /\ final_limited_migrations = <<>>
    /\ result = Unset
    /\ executed = <<>>
    /\ dry_run = FALSE
    /\ relocate_calls = <<>>
    /\ failed = <<>>
    /\ first_plan = Unset
    /\ pc = "update"

(* six VMs ap01 .. ap06, one prefix group, all on the first or the last of
   the hosts *)
group_on_one_host ==
    \E nh \in {1, 4}, real \in BOOLEAN :
    \E source \in {1, nh} :
        snapshot(nh,
                 [v \in 1..6 |-> <<"a", "p", "0", Digits[v + 1]>>],
                 [v \in 1..6 |-> source],
                 [v \in 1..6 |-> 10],
                 [h \in 1..nh |-> IF h = source THEN 60 ELSE 0],
                 real)

(* the ways 80 of CPU are split over the VMs of the hot host *)
HotHostVMs == {<<40, 40>>, <<40, 30, 10>>, <<20, 20, 20, 20>>}

(* three hosts of equal capacity: the VMs of one use 80 of CPU together, the
   two others hold one VM of 10 each; every host reports 30 of memory; no
   two VMs share a prefix *)
one_hot_host ==
    \E hot \in 1..3, split \in HotHostVMs, real \in BOOLEAN :
        LET n == Len(split)
            others == SelectSeq(<<1, 2, 3>>, LAMBDA h : h # hot)
        IN  snapshot(3,
                     [v \in 1..(n + 2) |-> <<"d", Alphabet[10 + v], "0", Digits[v + 1]>>],
                     [v \in 1..(n + 2) |-> IF v <= n THEN hot ELSE others[v - n]],
                     [v \in 1..(n + 2) |-> IF v <= n THEN split[v] ELSE 10],
                     [h \in 1..3 |-> 30],
                     real)

(* a prefix group of three VMs ap01, ap02, ap03 and a VM dd04 of its own
   prefix, placed in every way on two or three hosts *)
InitGroups ==
    \E nh \in {2, 3}, real \in BOOLEAN :
    \E place \in [1..4 -> 1..nh] :
        snapshot(nh,
                 [v \in 1..4 |-> IF v <= 3 THEN <<"a", "p", "0", Digits[v + 1]>>
                                 ELSE <<"d", "d", "0", "4">>],
                 place,
                 [v \in 1..4 |-> 10],
                 [h \in 1..nh |-> 10 * Cardinality({v \in 1..4 : place[v] = h})],
                 real)

SpecGroups == InitGroups /\ [][Next]_vars

(* a prefix group of two VMs ap01, ap02 and a VM dd03 of its own prefix,
   placed in every way on three or four hosts *)
InitPairs ==
    \E nh \in {3, 4}, real \in BOOLEAN :
    \E place \in [1..3 -> 1..nh] :
        snapshot(nh,
                 [v \in 1..3 |-> IF v <= 2 THEN <<"a", "p", "0", Digits[v + 1]>>
                                 ELSE <<"d", "d", "0", "3">>],
                 place,
                 [v \in 1..3 |-> 10],
                 [h \in 1..nh |-> 10 * Cardinality({v \in 1..3 : place[v] = h})],
                 real)

SpecPairs == InitPairs /\ [][Next]_vars

(* the memory the second host reports: half or all of its capacity *)
SecondHostMemory == {50, 100}

(* the CPU of ap02: that of the other VMs, or most of a host *)
HotVMCpu == {10, 85}

(* three hosts, the first with all its memory in use and the third with
   half of it; the VMs ap01, ap02 and dd03 placed in every way *)
InitFullHost ==
    \E mem2 \in SecondHostMemory, hot \in HotVMCpu, real \in BOOLEAN :
    \E place \in [1..3 -> 1..3] :
        snapshot(3,
                 [v \in 1..3 |-> IF v <= 2 THEN <<"a", "p", "0", Digits[v + 1]>>
                                 ELSE <<"d", "d", "0", "3">>],
                 place,
                 [v \in 1..3 |-> IF v = 2 THEN hot ELSE 10],
                 [h \in 1..3 |-> IF h = 1 THEN 100 ELSE IF h = 2 THEN mem2 ELSE 50],
                 real)

SpecFullHost == InitFullHost /\ [][Next]_vars

(* the memory the first host reports above the others: on, just above and
   between the thresholds of the five levels *)
MemoryLoads == {0, 5, 6, 10, 15, 16, 20, 25, 26}

(* the memory every host reports *)
MemoryBases == {0, 30}

(* no to three hosts and the VMs ap01, ap02, dd03 of 10 CPU each, all on
   the first host or dealt out over the hosts in turn *)
InitLoads ==
    \E nh \in 0..3, load \in MemoryLoads, base \in MemoryBases, gathered, real \in BOOLEAN :
        snapshot(nh,
                 [v \in 1..3 |-> IF v <= 2 THEN <<"a", "p", "0", Digits[v + 1]>>
                                 ELSE <<"d", "d", "0", "3">>],
                 [v \in 1..3 |-> IF nh = 0 THEN None
                                 ELSE IF gathered THEN 1 ELSE ((v - 1) % nh) + 1],
                 [v \in 1..3 |-> 10],
                 [h \in 1..nh |-> IF h = 1 THEN base + load ELSE base],
                 real)

SpecLoads == InitLoads /\ [][Next]_vars

InitScenarios == group_on_one_host \/ one_hot_host

SpecScenarios == InitScenarios /\ [][Next]_vars

----------------------------------------------------------------------------
(* Properties *)

AntiAffinity == "Anti-Affinity"

plan_returned == result # Unset

the_plan == result[1]

IsAA(m) == m.reason = AntiAffinity

IsBalancing(m) == m.reason # AntiAffinity

(* the host a VM is on once the first n intents of the final plan are applied *)
host_after(vm, n) ==
    LET moves == {i \in 1..n : final_limited_migrations[i].vm = vm}
    IN  IF moves = {} THEN vm_host[vm]
        ELSE final_limited_migrations[CHOOSE i \in moves : \A j \in moves : j <= i].target_host

(* the VMs sharing the prefix (name without its trailing digits) of vm *)
prefix_group(vm) ==
    {w \in Range(vms) : rstrip_digits(vm_name[w]) = rstrip_digits(vm_name[vm])}

(* max - min of the per-host count of a group once n intents are applied *)
group_spread_after(group, n) ==
    LET count(h) == Cardinality({w \in group : host_after(w, n) = h})
    IN  IF hosts = <<>> THEN 0
        ELSE SeqMax([i \in 1..Len(hosts) |-> count(hosts[i])])
             - SeqMin([i \in 1..Len(hosts) |-> count(hosts[i])])

(* C1: every plan plan_migrations returns names no VM in more than one
   entry. *)
C1_NoVmTwice ==
    plan_returned =>
        \A i, j \in 1..Len(the_plan) : the_plan[i][1] = the_plan[j][1] => i = j

(* a returned plan holds an anti-affinity intent and a balancing intent for
   two VMs of the same source host: the balancing pass selected on a host
   one of whose VMs was already planned *)
C1_Witness ==
    /\ plan_returned
    /\ \E i, j \in 1..Len(final_limited_migrations) :
        /\ IsAA(final_limited_migrations[i])
        /\ IsBalancing(final_limited_migrations[j])
        /\ vm_host[final_limited_migrations[i].vm] = vm_host[final_limited_migrations[j].vm]

(* what C2 expects of a plan cut to the limit *)
expected_limited_plan ==
    LET aa == SelectSeq(migrations, IsAA)
        bal == SelectSeq(migrations, IsBalancing)
    IN  IF Len(aa) >= max_total_migrations
        THEN SubSeq(aa, 1, max_total_migrations)
        ELSE aa \o SubSeq(bal, 1, max_total_migrations - Len(aa))

(* C2: a returned plan has at most max_total_migrations entries; a plan that
   exceeded the limit before the cut is the anti-affinity intents in their
   order (cut to the limit if they alone reach it) followed by the first
   (limit - number of anti-affinity intents) balancing intents in their
   order. *)
C2_Limit ==
    plan_returned =>
        /\ Len(the_plan) <= max_total_migrations
        /\ Len(migrations) > max_total_migrations =>
                the_plan = final_migration_tuples(expected_limited_plan)

(* a plan over the limit was cut to all of its anti-affinity intents and a
   proper part of its balancing intents *)
C2_Witness ==
    /\ plan_returned
    /\ Len(migrations) > max_total_migrations
    /\ \E i \in 1..Len(final_limited_migrations) : IsAA(final_limited_migrations[i])
    /\ \E i \in 1..Len(final_limited_migrations) : IsBalancing(final_limited_migrations[i])

position_in(s, x) == CHOOSE i \in 1..Len(s) : s[i] = x

(* C3: in a returned plan every anti-affinity intent precedes every
   balancing intent; the anti-affinity intents follow the order of the
   violations list they were found in, the balancing intents the order of
   the source hosts they were found on and, on one host, the order they
   were accepted in. *)
C3_Order ==
    plan_returned =>
        \A i, j \in 1..Len(final_limited_migrations) :
            LET a == final_limited_migrations[i]
                b == final_limited_migrations[j]
            IN  i < j =>
                /\ ~(IsBalancing(a) /\ IsAA(b))
                /\ IsAA(a) /\ IsAA(b) =>
                        position_in(violations, a.vm) < position_in(violations, b.vm)
                /\ IsBalancing(a) /\ IsBalancing(b) =>
                        /\ position_in(hosts, vm_host[a.vm]) <= position_in(hosts, vm_host[b.vm])
                        /\ position_in(migrations, a) < position_in(migrations, b)

(* a returned plan holds two anti-affinity intents followed by a balancing
   intent *)
C3_Witness ==
    /\ plan_returned
    /\ Len(final_limited_migrations) >= 3
    /\ IsAA(final_limited_migrations[1])
    /\ IsAA(final_limited_migrations[2])
    /\ IsBalancing(final_limited_migrations[Len(final_limited_migrations)])

(* C4: with ignore_anti_affinity false, applying the intents of the plan up
   to and including a balancing intent leaves the prefix group of its VM
   with host counts whose maximum and minimum differ by at most 1. *)
C4_BalancingKeepsAntiAffinity ==
    (plan_returned /\ ~ignore_anti_affinity) =>
        \A i \in 1..Len(final_limited_migrations) :
            IsBalancing(final_limited_migrations[i]) =>
                group_spread_after(prefix_group(final_limited_migrations[i].vm), i) <= 1

(* C5: for every intent of a returned plan, the VM's absolute CPU and
   memory added to the target host's current absolute CPU and memory give
   at most 90% of the host's capacity. *)
C5_IntentsFit ==
    plan_returned =>
        \A i \in 1..Len(final_limited_migrations) :
            LET m == final_limited_migrations[i]
                hm == host_metrics[m.target_host]
            IN  /\ (hm.cpu_usage + vm_metrics[m.vm].cpu_usage_abs) * 100
                        <= 90 * hm.cpu_capacity
                /\ (hm.memory_usage + vm_metrics[m.vm].memory_usage_abs) * 100
                        <= 90 * hm.memory_capacity


(* C6: two planning cycles on the same snapshot, with the same
   aggressiveness, limit and flags, return the same intents in the same
   order. *)
C6_SamePlanTwice ==
    (first_plan # Unset /\ plan_returned) => the_plan = first_plan[1]

usage_percentages(r) ==
    [i \in 1..Len(hosts) |->
        CASE r = "cpu" -> (host_metrics[hosts[i]].cpu_usage * 100)
                                \div host_metrics[hosts[i]].cpu_capacity
          [] r = "memory" -> (host_metrics[hosts[i]].memory_usage * 100)
                                \div host_metrics[hosts[i]].memory_capacity
          [] r = "disk" -> (host_metrics[hosts[i]].disk_io_usage * 100)
                                \div host_metrics[hosts[i]].disk_io_capacity
          [] OTHER -> (host_metrics[hosts[i]].network_io_usage * 100)
                                \div host_metrics[hosts[i]].network_capacity]

usage_spread(r) ==
    IF Len(hosts) < 2 THEN 0
    ELSE SeqMax(usage_percentages(r)) - SeqMin(usage_percentages(r))

threshold_of(level) == 30 - 5 * level

vms_of_host(h) == {v \in Range(vms) : vm_host[v] = h}

RECURSIVE SetSum(_, _)
SetSum(S, f) == IF S = {} THEN 0
                ELSE LET x == CHOOSE x \in S : TRUE IN f[x] + SetSum(S \ {x}, f)

(* C7: after annotate_hosts_with_metrics every host's memory_usage is the
   host's own counter overallMemoryUsage, and its cpu_usage the sum of the
   absolute CPU usage of the VMs on it. *)
C7_HostMemoryIsHostCounter ==
    (cs_real /\ pc # "update") =>
        \A h \in Range(hosts) :
            /\ host_metrics[h].memory_usage = host_overallMemoryUsage[h]
            /\ host_metrics[h].cpu_usage =
                    SetSum(vms_of_host(h), [v \in Range(vms) |-> vm_quickstats[v].overallCpuUsage])

(* C8: a planning cycle that failed returned no plan to main and handed
   nothing to the executor, whatever had been accepted before the failure. *)
C8_FailureCommitsNothing ==
    pc = "error" => (result = Unset /\ executed = <<>>)

(* the cycle failed after intents had been accepted *)
C8_Witness ==
    /\ pc = "error"
    /\ migrations # <<>>
    /\ result = Unset
    /\ executed = <<>>

(* C9: with no anti-affinity violation and every resource's max - min
   within the threshold of the aggressiveness level, the returned plan is
   empty. *)
C9_BalancedClusterEmptyPlan ==
    (/\ plan_returned
     /\ \A v \in Range(vms) : Len(hosts) >= 2 => group_spread_after(prefix_group(v), 0) <= 1
     /\ \A i \in 1..Len(Resources) : usage_spread(Resources[i]) <= threshold_of(aggressiveness))
    => the_plan = <<>>

(* an empty plan was returned for a cluster of several hosts one of whose
   resources differs by exactly the threshold *)
C9_Witness ==
    /\ plan_returned
    /\ Len(hosts) >= 2
    /\ \A v \in Range(vms) : group_spread_after(prefix_group(v), 0) <= 1
    /\ \A i \in 1..Len(Resources) : usage_spread(Resources[i]) <= threshold_of(aggressiveness)
    /\ \E i \in 1..Len(Resources) : usage_spread(Resources[i]) = threshold_of(aggressiveness)
    /\ the_plan = <<>>

(* C10: with fewer than two active hosts the violations list is empty and
   the plan plan_migrations returns is empty. *)
C10_FewerThanTwoHosts ==
    Len(hosts) < 2 =>
        /\ violations = <<>>
        /\ migrations = <<>>
        /\ plan_returned => the_plan = <<>>

(* a single host holding the two VMs of a group: the cycle went through
   with an empty plan *)
C10_Witness ==
    /\ Len(hosts) = 1
    /\ \A v \in Range(vms) : vm_host[v] = hosts[1]
    /\ pc = "done"
    /\ plan_returned
    /\ the_plan = <<>>
    /\ violations = <<>>

(* the host a VM is on once the intents of a list are applied *)
host_after_intents(vm, intents) ==
    LET moves == {i \in 1..Len(intents) : intents[i].vm = vm}
    IN  IF moves = {} THEN vm_host[vm]
        ELSE intents[CHOOSE i \in moves : \A j \in moves : j <= i].target_host

(* max - min of the per-host count of a group once the intents are applied *)
group_spread_after_intents(group, intents) ==
    LET count(h) == Cardinality({w \in group : host_after_intents(w, intents) = h})
    IN  SeqMax([i \in 1..Len(hosts) |-> count(hosts[i])])
        - SeqMin([i \in 1..Len(hosts) |-> count(hosts[i])])

(* the anti-affinity intents of the cycle, in the order the pass accepted
   them *)
anti_affinity_intents == SelectSeq(migrations, IsAA)

anti_affinity_pass_done == pc \in {"simulate", "balance", "limit", "planned", "done"}

six_vms_of_one_group_on_one_of_four_hosts ==
    /\ Len(hosts) = 4
    /\ Len(vms) = 6
    /\ \A v \in Range(vms) : prefix_group(v) = Range(vms) /\ vm_host[v] = vm_host[vms[1]]

(* C11: with 4 hosts and one prefix group of 6 VMs all on one host, the
   anti-affinity pass plans 4 or 5 intents, no VM twice, after which the
   per-host counts of the group differ by at most 1. *)
C11_GroupOfSixSpreadOverFourHosts ==
    (six_vms_of_one_group_on_one_of_four_hosts /\ anti_affinity_pass_done) =>
        /\ Len(anti_affinity_intents) \in {4, 5}
        /\ \A i, j \in 1..Len(anti_affinity_intents) :
                anti_affinity_intents[i].vm = anti_affinity_intents[j].vm => i = j
        /\ group_spread_after_intents(Range(vms), anti_affinity_intents) <= 1

(* the preferred host of a VM when every VM of an intent accepted earlier
   in the cycle counts on its planned target instead of its host *)
preferred_host_given_planned(vm_to_move, planned) ==
    LET vms_in_group == Get(vm_distribution, drop_last_two(vm_name[vm_to_move]), <<>>)
        source_host == get_host_of_vm(vm_to_move)
        counts == [h \in Range(hosts) |->
                    Cardinality({w \in Range(vms_in_group) : host_after_intents(w, planned) = h})]
        perfect == find_perfect_balance_host(vm_to_move, counts, source_host)
    IN  IF vms_in_group = <<>> \/ source_host = None \/ Len(hosts) <= 1 THEN None
        ELSE IF perfect # None THEN perfect
        ELSE find_better_than_source_host(vm_to_move, counts, source_host, counts[source_host])

(* C13: the target of every anti-affinity intent is the preferred host
   computed on the group counts adjusted by the anti-affinity intents
   accepted before it in the same cycle. *)
C13_PreferredHostCountsPlannedIntents ==
    anti_affinity_pass_done =>
        \A k \in 1..Len(anti_affinity_intents) :
            anti_affinity_intents[k].target_host =
                preferred_host_given_planned(anti_affinity_intents[k].vm,
                                             SubSeq(anti_affinity_intents, 1, k - 1))

(* the CPU the VMs placed on a host use together *)
cpu_of_vms_on(h) ==
    SetSum(vms_of_host(h), [v \in Range(vms) |-> vm_quickstats[v].overallCpuUsage])

(* the CPU of a host once the returned plan is applied *)
cpu_after_plan(h) ==
    SetSum({v \in Range(vms) : host_after(v, Len(final_limited_migrations)) = h},
           [v \in Range(vms) |-> vm_quickstats[v].overallCpuUsage])

(* three hosts of capacity 100: the VMs of host hot use 80 of CPU, those of
   the two others 10; the memory counters are equal; no prefix group is
   violated; aggressiveness 3 *)
pure_cpu_imbalance(hot) ==
    /\ Len(hosts) = 3
    /\ hot \in Range(hosts)
    /\ cpu_of_vms_on(hot) = 80
    /\ \A h \in Range(hosts) \ {hot} : cpu_of_vms_on(h) = 10
    /\ \A h \in Range(hosts) : host_overallMemoryUsage[h] = host_overallMemoryUsage[hot]
    /\ \A v \in Range(vms) : group_spread_after(prefix_group(v), 0) <= 1
    /\ aggressiveness = 3

(* C12: with H1 at 80% CPU, H2 and H3 at 10%, memory balanced, no violation
   and aggressiveness 3, the returned plan holds a balancing intent moving a
   VM of H1 to H2 or H3, leaves H1 below 80% CPU and has at most
   max_total_migrations entries. *)
C12_PureCpuImbalance ==
    \A hot \in Range(hosts) :
        (plan_returned /\ pure_cpu_imbalance(hot)) =>
            /\ \E i \in 1..Len(final_limited_migrations) :
                /\ IsBalancing(final_limited_migrations[i])
                /\ vm_host[final_limited_migrations[i].vm] = hot
                /\ final_limited_migrations[i].target_host \in Range(hosts) \ {hot}
            /\ cpu_after_plan(hot) < 80
            /\ Len(the_plan) <= max_total_migrations

(* the same with a cluster state that lists the VMs of a host and reports
   the usage of the hosts *)
C12_with_stand_in == cs_real \/ C12_PureCpuImbalance

(* the number of VMs of a group placed on a host *)
group_count_on(group, h) == Cardinality({w \in group : vm_host[w] = h})

(* what C14 expects in the violations list: the VMs of every group whose
   counts over the active hosts differ by more than 1 that are on a host
   holding the largest count of the group *)
expected_violations ==
    {v \in Range(vms) :
        /\ vm_host[v] \in Range(hosts)
        /\ group_spread_after(prefix_group(v), 0) > 1
        /\ \A h \in Range(hosts) :
            group_count_on(prefix_group(v), h) <= group_count_on(prefix_group(v), vm_host[v])}

(* C14: the violations list holds exactly the VMs, on a host with the
   largest count, of the groups whose per-host counts differ by more than
   1, and holds no VM twice. *)
C14_ViolationsAreFullestHostsOfViolatedGroups ==
    pc \notin {"update", "apply"} =>
        /\ Range(violations) = expected_violations
        /\ \A i, j \in 1..Len(violations) : violations[i] = violations[j] => i = j

(* a violated group with a VM that is not reported, on a host that holds
   fewer VMs of the group *)
C14_Witness ==
    /\ pc \notin {"update", "apply"}
    /\ violations # <<>>
    /\ \E v \in Range(vms), w \in Range(vms) :
        /\ v \in Range(violations)
        /\ w \notin Range(violations)
        /\ w \in prefix_group(v)

(* the group get_preferred_host_for_vm finds for a VM: the entry of
   vm_distribution under the key it computes from the name *)
group_looked_up(vm) == Range(Get(vm_distribution, drop_last_two(vm_name[vm]), <<>>))

(* C15: every VM with a name of at least 3 characters is filed under its
   name without its trailing digits, together with the VMs of that prefix,
   and get_preferred_host_for_vm looks the VM up in that same group. *)
C15_LookupKeyIsGroupingKey ==
    pc \notin {"update", "apply"} =>
        \A vm \in Range(vms) :
            Len(vm_name[vm]) >= 3 =>
                /\ short_name(vm_name[vm]) \in DOMAIN vm_distribution
                /\ Range(vm_distribution[short_name(vm_name[vm])]) = prefix_group(vm)
                /\ group_looked_up(vm) = prefix_group(vm)

(* C16: no intent, of either pass, names as target the host its VM is
   on, and get_preferred_host_for_vm returns the host of its VM for no VM
   (asked where the anti-affinity pass asks it: the groups, the hosts and
   the placement it reads do not change afterwards). *)
C16_TargetIsNeverTheSourceHost ==
    /\ \A i \in 1..Len(migrations) : migrations[i].target_host # vm_host[migrations[i].vm]
    /\ pc = "anti_affinity" =>
        \A vm \in Range(vms) :
            vm_host[vm] # None => get_preferred_host_for_vm(vm, <<>>) # vm_host[vm]

(* both passes planned: an anti-affinity intent and a balancing intent, the
   balancing one for a VM whose own host would pass the capacity test *)
C16_Witness ==
    /\ plan_returned
    /\ \E i \in 1..Len(migrations) : IsAA(migrations[i])
    /\ \E i \in 1..Len(migrations) :
        /\ IsBalancing(migrations[i])
        /\ would_fit_on_host(migrations[i].vm, vm_host[migrations[i].vm])

(* max - min of a list of percentages *)
spread_of(percentages) == SeqMax(percentages) - SeqMin(percentages)

(* C17: evaluate_imbalance reports a resource imbalanced exactly when the
   max - min of its per-host percentages is strictly greater than the
   threshold of the level, reports that difference as current_diff, and
   reports no resource imbalanced with fewer than 2 hosts; the same on the
   override lists when they are given.  The evaluator's own lists are
   those of the metrics update_metrics leaves; the override lists are those
   the balancing pass is called with. *)
C17_ImbalancedIffSpreadExceedsThreshold ==
    /\ pc = "apply" =>
        \A level \in 1..5 :
            LET own == evaluate_imbalance(level, Unset)
            IN  /\ Len(hosts) < 2 =>
                    \A r \in DOMAIN own : ~own[r].is_imbalanced
                /\ Len(hosts) >= 2 =>
                    \A r \in Range(Resources) :
                        /\ r \in DOMAIN own
                        /\ own[r].is_imbalanced <=> (usage_spread(r) > threshold_of(level))
                        /\ own[r].current_diff = usage_spread(r)
    /\ (pc = "balance" /\ overrides # Unset) =>
        \A level \in 1..5 :
            LET given == evaluate_imbalance(level, overrides)
            IN  \A r \in Range(Resources) :
                    /\ r \in DOMAIN given
                    /\ given[r].is_imbalanced <=>
                            (spread_of(overrides[1][r]) > threshold_of(level))
                    /\ given[r].current_diff = spread_of(overrides[1][r])

(* the balancing pass is about to evaluate a cluster where one resource
   differs by exactly the threshold and another by more *)
C17_Witness ==
    /\ pc = "balance"
    /\ Len(hosts) >= 2
    /\ \E r1, r2 \in Range(Resources) :
        /\ usage_spread(r1) = threshold_of(aggressiveness)
        /\ usage_spread(r2) > threshold_of(aggressiveness)
        /\ ~evaluate_imbalance(aggressiveness, Unset)[r1].is_imbalanced
        /\ evaluate_imbalance(aggressiveness, Unset)[r2].is_imbalanced

(* the resources evaluate_imbalance reports imbalanced at a level *)
imbalanced_at(level) ==
    LET details == evaluate_imbalance(level, Unset)
    IN  {r \in DOMAIN details : details[r].is_imbalanced}

(* C18: the thresholds are 25, 20, 15, 10 and 5 for the levels 1 to 5 and
   15 for any other level, for every resource; the resources reported
   imbalanced at a level are reported at every higher level. *)
C18_ThresholdsFallWithAggressiveness ==
    pc = "apply" =>
        /\ \A r \in Range(Resources) :
            /\ <<get_thresholds(1)[r], get_thresholds(2)[r], get_thresholds(3)[r],
                 get_thresholds(4)[r], get_thresholds(5)[r]>> = <<25, 20, 15, 10, 5>>
            /\ \A level \in {0, 6, 7} : get_thresholds(level)[r] = 15
        /\ \A low \in 1..4 : imbalanced_at(low) \subseteq imbalanced_at(low + 1)

(* a resource that level 5 reports imbalanced and level 1 does not *)
C18_Witness ==
    /\ pc = "apply"
    /\ \E r \in Range(Resources) : r \in imbalanced_at(5) /\ r \notin imbalanced_at(1)

(* C19: get_vms_on_host(h) lists exactly the VMs whose host is h, so a VM
   that has a host is listed under that host and under no other. *)
C19_VmsOnHostAreTheVmsPlacedThere ==
    /\ \A h \in Range(hosts) :
        Range(get_vms_on_host(h)) = {v \in Range(vms) : get_host_of_vm(v) = h}
    /\ \A v \in Range(vms) :
        get_host_of_vm(v) \in Range(hosts) =>
            {h \in Range(hosts) : v \in Range(get_vms_on_host(h))} = {get_host_of_vm(v)}

(* C20: no step of plan_migrations (anti-affinity pass, simulation,
   balancing pass, limit) changes the hosts, the VMs, their placement,
   host_metrics or vm_metrics of cluster_state. *)
C20_PlanningLeavesSnapshotUnchanged ==
    [][(pc \in {"anti_affinity", "simulate", "balance", "limit"})
        => (<<hosts, vms, vm_name, vm_host, host_metrics, vm_metrics>>' =
            <<hosts, vms, vm_name, vm_host, host_metrics, vm_metrics>>)]_vars

(* a plan was returned after the anti-affinity intents were simulated: the
   planner's overlay differs from the loads of the snapshot, and
   host_metrics are as update_metrics built them *)
C20_Witness ==
    /\ plan_returned
    /\ overrides # Unset
    /\ load_map # get_all_host_resource_percentages_map
    /\ host_metrics = (IF cs_real
                       THEN annotate_hosts_with_metrics(annotate_vms_with_metrics)
                       ELSE given_host_metrics)

(* the intents accepted before the i-th of the cycle *)
planned_before(i) == SubSeq(migrations, 1, i - 1)

(* C21: whatever ignore_anti_affinity is, the anti-affinity intents of the
   cycle are those the loop over the violations accepts (it reads no flag),
   and in a returned plan they precede every balancing intent. *)
C21_IgnoreFlagKeepsAntiAffinityPass ==
    /\ anti_affinity_pass_done =>
        anti_affinity_intents = anti_affinity_loop(violations, <<>>, {}).planned
    /\ plan_returned =>
        \A i, j \in 1..Len(final_limited_migrations) :
            (IsAA(final_limited_migrations[i]) /\ IsBalancing(final_limited_migrations[j]))
                => i < j

(* with the flag set a plan holds an anti-affinity intent and, after it, a
   balancing intent whose target the anti-affinity check refuses: the group
   of its VM is left with host counts that differ by more than 1 *)
C21_Witness ==
    /\ plan_returned
    /\ ignore_anti_affinity
    /\ anti_affinity_intents # <<>>
    /\ \E i \in 1..Len(migrations) :
        /\ IsBalancing(migrations[i])
        /\ ~is_anti_affinity_safe(migrations[i].vm, migrations[i].target_host,
                                  planned_before(i))
        /\ group_spread_after_intents(prefix_group(migrations[i].vm),
                                      SubSeq(migrations, 1, i)) > 1

(* C22: once execute_migrations has run on a plan, the intents it attempted
   are the intents of the plan, each once and in plan order; in dry-run mode
   Relocate was called for none and none failed; in real mode every intent
   either had Relocate called or was logged as failed, those after a failed
   one included. *)
C22_EveryIntentAttemptedOnce ==
    (pc = "done" /\ the_plan # <<>>) =>
        /\ executed = the_plan
        /\ dry_run => (relocate_calls = <<>> /\ failed = <<>>)
        /\ ~dry_run =>
            \A i \in 1..Len(the_plan) :
                the_plan[i] \in Range(relocate_calls) \cup Range(failed)

(* a real run on a plan of two or more intents: the migration of the first
   failed, and Relocate was still called for every intent *)
C22_Witness ==
    /\ pc = "done"
    /\ ~dry_run
    /\ Len(the_plan) >= 2
    /\ failed = <<the_plan[1]>>
    /\ relocate_calls = the_plan

(* the VMs of the simulated intents *)
simulated_vms == {migrations[i].vm : i \in 1..Len(migrations)}

(* the VMs the simulated intents bring to a host *)
arriving_on(h) == {migrations[i].vm : i \in {k \in 1..Len(migrations) : migrations[k].target_host = h}}

(* the VMs the simulated intents take from a host *)
leaving(h) == {v \in simulated_vms : vm_host[v] = h}

(* the absolute CPU of a host after the simulated intents *)
simulated_cpu_usage(h) ==
    host_metrics[h].cpu_usage
    - SetSum(leaving(h), [v \in Range(vms) |-> vm_metrics[v].cpu_usage_abs])
    + SetSum(arriving_on(h), [v \in Range(vms) |-> vm_metrics[v].cpu_usage_abs])

(* the absolute memory of a host after the simulated intents *)
simulated_memory_usage(h) ==
    host_metrics[h].memory_usage
    - SetSum(leaving(h), [v \in Range(vms) |-> vm_metrics[v].memory_usage_abs])
    + SetSum(arriving_on(h), [v \in Range(vms) |-> vm_metrics[v].memory_usage_abs])

(* the simulation has run on the anti-affinity intents and the balancing
   pass has not yet added its own *)
simulation_returned == pc = "balance" /\ overrides # Unset

(* C23: the simulated CPU and memory percentages of every host are those of
   its snapshot usage less the usage of the VMs the intents take from it
   plus the usage of the VMs they bring to it, so that the usage of the
   cluster is conserved; the disk and network percentages are the original
   ones; the four lists and the map hold the hosts of cluster_state.hosts in
   that order. *)
C23_SimulationMovesUsageWithTheVMs ==
    simulation_returned =>
        LET lists == overrides[1]
            orig == get_resource_percentage_lists
        IN  /\ \A r \in Range(Resources) : Len(lists[r]) = Len(hosts)
            /\ DOMAIN load_map = Range(hosts)
            /\ \A i \in 1..Len(hosts) :
                LET h == hosts[i]
                IN  /\ lists.cpu[i] * host_metrics[h].cpu_capacity
                            = 100 * simulated_cpu_usage(h)
                    /\ lists.memory[i] * host_metrics[h].memory_capacity
                            = 100 * simulated_memory_usage(h)
                    /\ lists.disk[i] = orig.disk[i]
                    /\ lists.network[i] = orig.network[i]
                    /\ \A r \in Range(Resources) : load_map[h][r] = lists[r][i]
            /\ SumSeq([i \in 1..Len(hosts) |-> lists.cpu[i] * host_metrics[hosts[i]].cpu_capacity])
                    = 100 * SumSeq([i \in 1..Len(hosts) |-> host_metrics[hosts[i]].cpu_usage])
            /\ SumSeq([i \in 1..Len(hosts) |-> lists.memory[i] * host_metrics[hosts[i]].memory_capacity])
                    = 100 * SumSeq([i \in 1..Len(hosts) |-> host_metrics[hosts[i]].memory_usage])

(* two intents were simulated on three hosts whose usage is known: a host
   lost usage, a host gained usage and a host kept its own *)
C23_Witness ==
    /\ simulation_returned
    /\ ~cs_real
    /\ Len(migrations) >= 2
    /\ \E a, b, c \in Range(hosts) :
        /\ simulated_cpu_usage(a) < host_metrics[a].cpu_usage
        /\ simulated_cpu_usage(b) > host_metrics[b].cpu_usage
        /\ simulated_cpu_usage(c) = host_metrics[c].cpu_usage
        /\ host_metrics[c].cpu_usage > 0

(* the balancing intents of the plan as planned *)
balancing_intents == SelectSeq(migrations, IsBalancing)

(* the simulation has run or was skipped, and the balancing pass is next or
   over *)
simulation_decided == pc \in {"balance", "limit", "planned", "done"}

(* the balancing pass is over *)
balancing_pass_done == pc \in {"limit", "planned", "done"}

(* the percentage lists the balancing pass is to decide from *)
lists_for_decision ==
    IF anti_affinity_intents = <<>>
    THEN get_resource_percentage_lists
    ELSE get_simulated_load_data_after_migrations(anti_affinity_intents).lists

(* the spread of a resource in a set of lists is above the threshold of the
   level *)
spread_exceeds_threshold(lists, r) ==
    /\ Len(lists[r]) >= 2
    /\ SeqMax(lists[r]) - SeqMin(lists[r]) > get_thresholds(aggressiveness)[r]

(* C24: the simulation has run exactly when the anti-affinity pass issued an
   intent; then the overrides and the map of the balancing pass are the
   simulated ones, and otherwise there are no overrides and the map is the
   evaluator's own; balancing intents are planned only when a resource's
   spread in the lists for the decision exceeds the threshold. *)
C24_BalancingDecidesFromSimulatedLoad ==
    /\ simulation_decided =>
        /\ overrides # Unset <=> anti_affinity_intents # <<>>
        /\ overrides = Unset => load_map = get_all_host_resource_percentages_map
        /\ overrides # Unset =>
            \A sim \in {get_simulated_load_data_after_migrations(anti_affinity_intents)} :
                /\ overrides[1] = sim.lists
                /\ load_map = sim.map
    /\ (balancing_pass_done /\ balancing_intents # <<>>) =>
        \A lists \in {lists_for_decision} :
            \E r \in Range(Resources) : spread_exceeds_threshold(lists, r)

(* the anti-affinity intents bring a resource of the snapshot that was
   imbalanced within the threshold, and the balancing pass plans nothing *)
C24_Witness ==
    /\ balancing_pass_done
    /\ anti_affinity_intents # <<>>
    /\ overrides # Unset
    /\ \E r \in Range(Resources) : spread_exceeds_threshold(get_resource_percentage_lists, r)
    /\ \A r \in Range(Resources) : ~spread_exceeds_threshold(overrides[1], r)
    /\ balancing_intents = <<>>

(* the per-host counts a group can have, the counts of the groups of the
   snapshot among them *)
GroupCounts ==
    [Range(hosts) -> 0..(MaxVMs - 1)]
    \cup {host_vm_counts(enforce_anti_affinity[p]) : p \in DOMAIN enforce_anti_affinity}

(* the count of a host once a VM of the group has moved from source to
   target *)
count_after_move(counts, source, target, h) ==
    counts[h] - (IF h = source THEN 1 ELSE 0) + (IF h = target THEN 1 ELSE 0)

(* the hosts other than the source where the VM leaves the counts of the
   group within 1 of each other on the active hosts *)
perfect_balance_hosts(counts, source) ==
    {target \in Range(hosts) \ {source} :
        \A a, b \in Range(hosts) :
            count_after_move(counts, source, target, a)
                - count_after_move(counts, source, target, b) <= 1}

(* r is the host of S with the lowest count, the smallest name among those
   of that count *)
lowest_count_smallest_name(r, S, counts) ==
    /\ r \in S
    /\ \A t \in S \ {r} :
        \/ counts[r] < counts[t]
        \/ counts[r] = counts[t] /\ StrLess(host_name(r), host_name(t))

(* the counts get_preferred_host_for_vm reads for a VM: those of the group
   it looks the VM up in, on the current placement *)
counts_read_for(vm) ==
    host_vm_counts(Get(vm_distribution, drop_last_two(vm_name[vm]), <<>>))

(* C25: for every source host holding a VM of the group and all per-host
   counts, _find_perfect_balance_host returns none exactly when no other
   host leaves the counts within 1 of each other, and otherwise the one of
   those hosts with the lowest current count, the lexicographically smallest
   name among equals; an anti-affinity intent goes to that host whenever
   there is one. *)
C25_PerfectBalanceHostIsLowestCountThenName ==
    /\ pc = "apply" =>
        \A source \in Range(hosts), counts \in GroupCounts :
            counts[source] >= 1 =>
                LET r == find_perfect_balance_host(None, counts, source)
                    S == perfect_balance_hosts(counts, source)
                IN  /\ r = None <=> S = {}
                    /\ r # None => lowest_count_smallest_name(r, S, counts)
    /\ anti_affinity_pass_done =>
        \A i \in 1..Len(anti_affinity_intents) :
            LET m == anti_affinity_intents[i]
                S == perfect_balance_hosts(counts_read_for(m.vm), vm_host[m.vm])
            IN  S # {} => lowest_count_smallest_name(m.target_host, S, counts_read_for(m.vm))

(* an anti-affinity intent to the host first in name of two hosts that give
   perfect balance with the same count, the other being first in the
   inventory *)
C25_Witness ==
    /\ anti_affinity_pass_done
    /\ \E i \in 1..Len(anti_affinity_intents) :
        LET m == anti_affinity_intents[i]
            S == perfect_balance_hosts(counts_read_for(m.vm), vm_host[m.vm])
        IN  /\ m.target_host \in S
            /\ \E t \in S : /\ t < m.target_host
                            /\ counts_read_for(m.vm)[t] = counts_read_for(m.vm)[m.target_host]
                            /\ StrLess(host_name(m.target_host), host_name(t))

(* the hosts other than the source with strictly fewer VMs of the group than
   the source *)
better_than_source_hosts(counts, source) ==
    {target \in Range(hosts) \ {source} : counts[target] < counts[source]}

(* get_preferred_host_for_vm gets as far as the two passes for this VM *)
passes_consulted_for(vm) ==
    /\ Len(vm_name[vm]) >= 3
    /\ Get(vm_distribution, drop_last_two(vm_name[vm]), <<>>) # <<>>
    /\ vm_host[vm] # None
    /\ Len(hosts) > 1

(* C26: for every source host and all per-host counts,
   _find_better_than_source_host returns none exactly when no other host
   has strictly fewer VMs of the group than the source, and otherwise the
   one of those hosts with the minimum count, the lexicographically smallest
   name among equals; get_preferred_host_for_vm returns the host of the
   perfect balance pass when it finds one and that of the fallback pass only
   otherwise, and so does an anti-affinity intent. *)
C26_FallbackOnlyAfterPerfectBalanceFails ==
    /\ pc = "apply" =>
        \A source \in Range(hosts), counts \in GroupCounts :
            LET r == find_better_than_source_host(None, counts, source, counts[source])
                S == better_than_source_hosts(counts, source)
            IN  /\ r = None <=> S = {}
                /\ r # None => lowest_count_smallest_name(r, S, counts)
    /\ pc = "anti_affinity" =>
        \A vm \in Range(vms) :
            passes_consulted_for(vm) =>
                LET counts == counts_read_for(vm)
                    perfect == find_perfect_balance_host(vm, counts, vm_host[vm])
                IN  get_preferred_host_for_vm(vm, <<>>) =
                        IF perfect # None THEN perfect
                        ELSE find_better_than_source_host(vm, counts, vm_host[vm],
                                                          counts[vm_host[vm]])
    /\ anti_affinity_pass_done =>
        \A i \in 1..Len(anti_affinity_intents) :
            LET m == anti_affinity_intents[i]
                counts == counts_read_for(m.vm)
                P == perfect_balance_hosts(counts, vm_host[m.vm])
                S == better_than_source_hosts(counts, vm_host[m.vm])
            IN  IF P # {} THEN m.target_host \in P
                ELSE lowest_count_smallest_name(m.target_host, S, counts)

(* an anti-affinity intent of the fallback pass: no host gives perfect
   balance, and of two hosts with the same count below the source's the
   intent goes to the first in name, the other being first in the
   inventory *)
C26_Witness ==
    /\ anti_affinity_pass_done
    /\ \E i \in 1..Len(anti_affinity_intents) :
        LET m == anti_affinity_intents[i]
            counts == counts_read_for(m.vm)
        IN  /\ perfect_balance_hosts(counts, vm_host[m.vm]) = {}
            /\ m.target_host \in better_than_source_hosts(counts, vm_host[m.vm])
            /\ \E t \in better_than_source_hosts(counts, vm_host[m.vm]) :
                /\ t < m.target_host
                /\ counts[t] = counts[m.target_host]
                /\ StrLess(host_name(m.target_host), host_name(t))

(* the percentage of a host for a resource in a set of per-host lists *)
percentage_in(lists, h, r) ==
    lists[r][CHOOSE i \in 1..Len(hosts) : hosts[i] = h]

(* the host is at the observed maximum of a resource that the lists show
   imbalanced *)
at_max_of_imbalanced_resource(lists, h) ==
    \E r \in Range(Resources) :
        /\ spread_exceeds_threshold(lists, r)
        /\ percentage_in(lists, h, r) = SeqMax(lists[r])

(* C27: the host of the VM of every balancing intent is, in the percentages
   used for the decision (the simulated ones when anti-affinity intents
   were issued, the snapshot's otherwise), at the maximum of a resource
   reported imbalanced; a host at the maximum of no imbalanced resource
   loses no VM to balancing. *)
C27_BalancingSourceIsAtMaxOfImbalancedResource ==
    (balancing_pass_done /\ balancing_intents # <<>>) =>
        \A lists \in {lists_for_decision} :
            /\ \A i \in 1..Len(balancing_intents) :
                at_max_of_imbalanced_resource(lists, vm_host[balancing_intents[i].vm])
            /\ \A h \in Range(hosts) :
                ~at_max_of_imbalanced_resource(lists, h) =>
                    \A i \in 1..Len(balancing_intents) :
                        vm_host[balancing_intents[i].vm] # h

(* a balancing intent decided on the simulated percentages: its source host
   is at the maximum of an imbalanced resource after the anti-affinity
   intents and was at the maximum of none in the snapshot, while a host
   that holds a VM outside the plan and is not at a maximum loses none *)
C27_Witness ==
    /\ plan_returned
    /\ anti_affinity_intents # <<>>
    /\ balancing_intents # <<>>
    /\ \E lists \in {lists_for_decision} :
        /\ \E i \in 1..Len(balancing_intents) :
            LET source == vm_host[balancing_intents[i].vm]
            IN  /\ at_max_of_imbalanced_resource(lists, source)
                /\ ~at_max_of_imbalanced_resource(get_resource_percentage_lists, source)
        /\ \E h \in Range(hosts), vm \in Range(vms) :
            /\ vm_host[vm] = h
            /\ vm \notin vms_in_migration_plan
            /\ ~at_max_of_imbalanced_resource(lists, h)

(* the details of the resources evaluate_imbalance reports imbalanced to
   the balancing pass *)
imbalanced_resources_details_now ==
    LET details == evaluate_imbalance(aggressiveness, overrides)
    IN  [r \in {x \in DOMAIN details : details[x].is_imbalanced} |-> details[r]]

(* the hosts other than the VM's that pass the capacity fit check and,
   unless ignore_anti_affinity is set, the anti-affinity safety check *)
hosts_passing_checks(vm, planned) ==
    {t \in Range(hosts) \ {vm_host[vm]} :
        /\ would_fit_on_host(vm, t)
        /\ ignore_anti_affinity \/ is_anti_affinity_safe(vm, t, planned)}

(* the sum over the imbalanced resources of 100 minus the percentage of the
   host in the map for the decision *)
balancing_score(t, details) ==
    SumSeq([i \in 1..Len(Resources) |->
                IF Resources[i] \in DOMAIN details
                THEN 100 - load_map[t][Resources[i]] ELSE 0])

(* the VMs the balancing pass may ask a target for: outside the plan, on a
   host at the maximum of an imbalanced resource *)
balancing_candidates(details) ==
    {vm \in Range(vms) :
        /\ vm \notin vms_in_migration_plan
        /\ vm_host[vm] # None
        /\ \E r \in DOMAIN details :
            /\ load_map[vm_host[vm]][r] = details[r].max_usage
            /\ load_map[vm_host[vm]][r] > 0}

(* C28: asked by the balancing pass for a VM of a source host,
   _find_better_host_for_balancing returns a host of maximal score among
   the hosts that pass the checks, and none only when no host passes
   them. *)
C28_TargetIsBestScoredHostPassingChecks ==
    pc = "balance" =>
        \A details \in {imbalanced_resources_details_now} :
            \A vm \in balancing_candidates(details) :
                LET r == find_better_host_for_balancing(vm, vm_host[vm], hosts, details,
                                                        load_map, migrations)
                    P == hosts_passing_checks(vm, migrations)
                IN  /\ r # None =>
                        /\ r \in P
                        /\ \A t \in P : balancing_score(r, details) >= balancing_score(t, details)
                    /\ r = None => P = {}

(* C29: no anti-affinity intent of the plan increases the max - min of the
   per-host counts of its VM's group, counted on the placement with the
   intents before it applied. *)
C29_AntiAffinityIntentDoesNotWidenSpread ==
    anti_affinity_pass_done =>
        \A i \in 1..Len(anti_affinity_intents) :
            group_spread_after_intents(prefix_group(anti_affinity_intents[i].vm),
                                       SubSeq(anti_affinity_intents, 1, i))
            <= group_spread_after_intents(prefix_group(anti_affinity_intents[i].vm),
                                          SubSeq(anti_affinity_intents, 1, i - 1))

(* the VMs the intents of the returned plan bring to a host *)
planned_arrivals(h) ==
    {final_limited_migrations[i].vm :
        i \in {k \in 1..Len(final_limited_migrations) :
                    final_limited_migrations[k].target_host = h}}

(* the CPU% of a host with all the VMs the plan brings to it added to its
   snapshot usage *)
cumulative_cpu_pct(h) ==
    Percentage(host_metrics[h].cpu_usage
               + SetSum(planned_arrivals(h), [v \in Range(vms) |-> vm_metrics[v].cpu_usage_abs]),
               host_metrics[h].cpu_capacity)

(* the memory% of a host with all the VMs the plan brings to it added to its
   snapshot usage *)
cumulative_memory_pct(h) ==
    Percentage(host_metrics[h].memory_usage
               + SetSum(planned_arrivals(h), [v \in Range(vms) |-> vm_metrics[v].memory_usage_abs]),
               host_metrics[h].memory_capacity)

(* the CPU of every host the plan targets stays at most 90% with all its
   arrivals *)
cumulative_cpu_fits ==
    plan_returned =>
        \A h \in Range(hosts) : planned_arrivals(h) # {} => cumulative_cpu_pct(h) <= 90

(* C30: every host the returned plan targets stays at most 90% of CPU and
   of memory with all the VMs the plan brings to it added to its snapshot
   usage. *)
C30_PlanFitsAsAWhole ==
    plan_returned =>
        \A h \in Range(hosts) :
            planned_arrivals(h) # {} =>
                /\ cumulative_cpu_pct(h) <= 90
                /\ cumulative_memory_pct(h) <= 90

====
